---------------------------- MODULE Spec2Model ----------------------------
(***************************************************************************)
(* A model of the image-ingestion pipeline of EdgeLLMPlus/App.tsx          *)
(* (toMediaPath, detectMimeFromBytes, resizeNearestRGBA, writeBmp24,       *)
(* ensureBmpForMedia) and of the chat turn that calls it                   *)
(* (handleSendMessage).                                                    *)
(*                                                                         *)
(* Strings are sequences of tokens: "file://", "http://", "/", "?", ".",   *)
(* "format", ":", "=", "webp", ... are one token each, so that startsWith, *)
(* includes, split and replace are computed on the sequence the way the    *)
(* code computes them on characters.  No two alphanumeric tokens are       *)
(* adjacent in a reference.  Byte buffers are sequences over 0..255.       *)
(***************************************************************************)
EXTENDS Integers, Sequences, FiniteSets, TLC

\* ------------------------------------------------------------------ bounds

\* highest value of the millisecond clock read by Date.now()
MaxClock == 1
\* number of invocation records (top-level calls and recursive calls)
MaxInv == 4

\* ------------------------------------------------------- program constants

\* options.maxSize ?? 1024
DefaultMaxSize == 1024
\* pixel-data offset: 14-byte file header + 40-byte DIB header
BmpHeaderSize == 54
\* x/y pixels per metre written to the DIB header
BmpPpm == 2835

\* ----------------------------------------------------------------- values

\* the null of `string | null`; no reference contains this token
Null == <<"null">>
\* the JavaScript value undefined, where a string is expected
Undefined == <<"undefined">>
\* the null of `Uint8Array | null`; bytes are 0..255
NullBytes == <<-1>>
\* options = {} : maxSize is undefined
Omitted == -1

Max(a, b) == IF a >= b THEN a ELSE b

\* --------------------------------------------------------------- strings

\* tokens matched by [a-zA-Z0-9]+
Alnum == {"a", "h", "x", "bmp", "png", "jpg", "webp", "jpeg", "format", "caches",
          "t0", "t1", "t2", "t3", "t4"}

\* uri.startsWith(p)
StartsWith(s, p) == Len(s) >= 1 /\ s[1] = p

\* s.replace(/^file:\/\//, "")
StripFileScheme(s) == IF StartsWith(s, "file://") THEN Tail(s) ELSE s

\* a variant of WithFileScheme that leaves the scheme out
WithoutFileScheme(p) == p

\* `file://${p}`
WithFileScheme(p) == <<"file://">> \o p

\* s.split(sep)[0]
RECURSIVE BeforeFirst(_, _)
BeforeFirst(s, sep) ==
  IF s = <<>> \/ Head(s) = sep THEN <<>>
  ELSE <<Head(s)>> \o BeforeFirst(Tail(s), sep)

\* uri.split("?")[0].split("#")[0]
CleanOf(uri) == BeforeFirst(BeforeFirst(uri, "?"), "#")

\* clean.match(/\.([a-zA-Z0-9]+)$/) ? match[1] : "jpg"
ExtOf(clean) ==
  IF Len(clean) >= 2 /\ clean[Len(clean) - 1] = "." /\ clean[Len(clean)] \in Alnum
  THEN clean[Len(clean)]
  ELSE "jpg"

\* a match of /format[:=]webp/ starts at the head of s
HintAtHead(s) ==
  Len(s) >= 3 /\ s[1] = "format" /\ s[2] \in {":", "="} /\ s[3] = "webp"

\* uri.includes("format:webp") || uri.includes("format=webp")
IncludesWebpHint(uri) ==
  \E i \in 1..Len(uri) : HintAtHead(SubSeq(uri, i, Len(uri)))

\* a variant of ReplaceWebpHint without the g flag: the first match only
RECURSIVE ReplaceFirstWebpHint(_)
ReplaceFirstWebpHint(s) ==
  IF s = <<>> THEN <<>>
  ELSE IF HintAtHead(s)
       THEN <<"format", ":", "jpeg">> \o SubSeq(s, 4, Len(s))
       ELSE <<Head(s)>> \o ReplaceFirstWebpHint(Tail(s))

\* uri.replace(/format[:=]webp/g, "format:jpeg"): every match, left to right
RECURSIVE ReplaceWebpHint(_)
ReplaceWebpHint(s) ==
  IF s = <<>> THEN <<>>
  ELSE IF HintAtHead(s)
       THEN <<"format", ":", "jpeg">> \o ReplaceWebpHint(SubSeq(s, 4, Len(s)))
       ELSE <<Head(s)>> \o ReplaceWebpHint(Tail(s))

\* Date.now() rendered into a file name
TimeToken(t) == <<"t0", "t1", "t2", "t3", "t4">>[t + 1]

\* `${RNFS.CachesDirectoryPath}/llm_img_${Date.now()}.${ext}`
CachePath(t, ext) == <<"/", "caches", "/", "llm_img_", TimeToken(t), ".", ext>>

\* ----------------------------------------------------------------- bytes

\* src[i] of a Uint8Array, 0-based; a read past the end stores as 0
ByteAt(buf, i) == IF i >= 0 /\ i < Len(buf) THEN buf[i + 1] ELSE 0

\* a variant of LE32 that stores the most significant byte first
BE32(n) ==
  <<(n \div 16777216) % 256, (n \div 65536) % 256, (n \div 256) % 256, n % 256>>

\* DataView.setUint32 / setInt32, little-endian; every n written is in 0..2^31-1
LE32(n) ==
  <<n % 256, (n \div 256) % 256, (n \div 65536) % 256, (n \div 16777216) % 256>>

\* DataView.setUint16, little-endian
LE16(n) == <<n % 256, (n \div 256) % 256>>

\* a variant of HasSignature that compares the first byte of sig only
HasSignatureFirstByte(bytes, sig, at) == ByteAt(bytes, at) = sig[1]

\* first bytes[0..n-1] equal sig and bytes.length >= n
HasSignature(bytes, sig, at) ==
  \A k \in 1..Len(sig) : ByteAt(bytes, at + k - 1) = sig[k]

detectMimeFromBytes(bytes) ==
  IF Len(bytes) >= 2 /\ HasSignature(bytes, <<66, 77>>, 0)
    THEN "image/bmp"
  ELSE IF Len(bytes) >= 8 /\ HasSignature(bytes, <<137, 80, 78, 71, 13, 10, 26, 10>>, 0)
    THEN "image/png"
  ELSE IF Len(bytes) >= 3 /\ HasSignature(bytes, <<255, 216, 255>>, 0)
    THEN "image/jpeg"
  ELSE IF Len(bytes) >= 12 /\ HasSignature(bytes, <<82, 73, 70, 70>>, 0)
                           /\ HasSignature(bytes, <<87, 69, 66, 80>>, 8)
    THEN "image/webp"
  ELSE "application/octet-stream"

\* a variant of SourceCoordinate that rounds to the nearest source pixel
SourceCoordinateRounded(n, srcN, dstN) == (2 * n * srcN + dstN) \div (2 * dstN)

\* Math.floor((n * srcN) / dstN): the source column of destination column n,
\* or the source row of destination row n
SourceCoordinate(n, srcN, dstN) == (n * srcN) \div dstN

\* di + c: where channel c of destination pixel (x, y) is written
DestIndex(x, y, c, dstW) == (y * dstW + x) * 4 + c

\* a variant of resizeNearestRGBA that samples the pixel nearest to the centre
resizeRoundedRGBA(src, srcW, srcH, dstW, dstH) ==
  [j \in 1..(dstW * dstH * 4) |->
     LET di == (j - 1) \div 4
         c  == (j - 1) % 4
         y  == di \div dstW
         x  == di % dstW
         sy == (2 * y * srcH + dstH) \div (2 * dstH)
         sx == (2 * x * srcW + dstW) \div (2 * dstW)
         si == (sy * srcW + sx) * 4
     IN  ByteAt(src, si + c)]

resizeNearestRGBA(src, srcW, srcH, dstW, dstH) ==
  [j \in 1..(dstW * dstH * 4) |->
     LET di == (j - 1) \div 4
         c  == (j - 1) % 4
         y  == di \div dstW
         x  == di % dstW
         sy == SourceCoordinate(y, srcH, dstH)
         sx == SourceCoordinate(x, srcW, dstW)
         si == (sy * srcW + sx) * 4
     IN  ByteAt(src, si + c)]

\* a variant of BmpRow that leaves the padding out
BmpRowUnpadded(rgba, width, y, rowPad) ==
  [j \in 1..(width * 3) |->
     LET x  == (j - 1) \div 3
         c  == (j - 1) % 3
         si == (y * width + x) * 4
     IN  IF si + 3 >= Len(rgba) THEN 0 ELSE rgba[si + (2 - c) + 1]]

\* a variant of BmpRow that copies the bytes a cut-off pixel still has
BmpRowPartial(rgba, width, y, rowPad) ==
  [j \in 1..(width * 3 + rowPad) |->
     IF j > width * 3 THEN 0
     ELSE LET x  == (j - 1) \div 3
              c  == (j - 1) % 3
              si == (y * width + x) * 4
          IN  IF si + (2 - c) >= Len(rgba) THEN 0 ELSE rgba[si + (2 - c) + 1]]

\* one row of writeBmp24's pixel loop: B,G,R per pixel, then the padding
BmpRow(rgba, width, y, rowPad) ==
  [j \in 1..(width * 3 + rowPad) |->
     IF j > width * 3 THEN 0
     ELSE LET x  == (j - 1) \div 3
              c  == (j - 1) % 3
              si == (y * width + x) * 4
          IN  IF si + 3 >= Len(rgba) THEN 0 ELSE rgba[si + (2 - c) + 1]]

\* a variant of BmpRows that emits the rows top-down: y = 0, 1, ..., upTo
RECURSIVE BmpRowsTopDown(_, _, _, _)
BmpRowsTopDown(rgba, width, upTo, rowPad) ==
  IF upTo < 0 THEN <<>>
  ELSE BmpRowsTopDown(rgba, width, upTo - 1, rowPad)
       \o BmpRow(rgba, width, upTo, rowPad)

\* rows y = upTo, upTo - 1, ..., 0 in that order
RECURSIVE BmpRows(_, _, _, _)
BmpRows(rgba, width, upTo, rowPad) ==
  IF upTo < 0 THEN <<>>
  ELSE BmpRow(rgba, width, upTo, rowPad) \o BmpRows(rgba, width, upTo - 1, rowPad)

writeBmp24(rgba, width, height) ==
  LET rowStride == width * 3
      rowPad    == (4 - (rowStride % 4)) % 4
      imageSize == (rowStride + rowPad) * height
      fileSize  == 14 + 40 + imageSize
  IN  <<66, 77>> \o LE32(fileSize) \o LE32(0) \o LE32(BmpHeaderSize)
      \o LE32(40) \o LE32(width) \o LE32(height) \o LE16(1) \o LE16(24)
      \o LE32(0) \o LE32(imageSize) \o LE32(BmpPpm) \o LE32(BmpPpm)
      \o LE32(0) \o LE32(0)
      \o BmpRows(rgba, width, height - 1, rowPad)

\* a variant of CompositeChannel that truncates instead of rounding
CompositeChannelTruncated(c, a) == (c * a + 255 * (255 - a)) \div 255

\* Math.round(c * alpha + 255 * (1 - alpha)) with alpha = a / 255
CompositeChannel(c, a) == (2 * (c * a + 255 * (255 - a)) + 255) \div 510

\* a variant of compositeOnWhite that leaves the alpha byte as it was
compositeOnWhiteKeepsAlpha(rgba) ==
  [j \in 1..Len(rgba) |->
     IF (j - 1) % 4 = 3 THEN rgba[j]
     ELSE CompositeChannel(rgba[j], rgba[j + 3 - ((j - 1) % 4)])]

\* the alpha-compositing loop of ensureBmpForMedia
compositeOnWhite(rgba) ==
  [j \in 1..Len(rgba) |->
     IF (j - 1) % 4 = 3 THEN 255
     ELSE CompositeChannel(rgba[j], rgba[j + 3 - ((j - 1) % 4)])]

\* ------------------------------------------------------- IEEE doubles
\* The scale of the resize is computed in JavaScript numbers.  A positive
\* double is [kind |-> "finite", bits, e] with 53 mantissa bits, most
\* significant first, bits[1] = 1, and value = sum of bits[k] * 2^(e - k + 1).

Pow2(n) == IF n = 0 THEN 1 ELSE LET half[k \in 0..n] == IF k = 0 THEN 1 ELSE 2 * half[k - 1]
                                IN  half[n]

\* the binary digits of a natural number, most significant first
RECURSIVE BitsOf(_)
BitsOf(n) == IF n = 0 THEN <<>> ELSE BitsOf(n \div 2) \o <<n % 2>>

\* bits + 1 in the same number of digits, and the carry out of the top digit
RECURSIVE AddOne(_)
AddOne(bits) ==
  IF bits = <<>> THEN [bits |-> <<>>, carry |-> 1]
  ELSE IF Len(bits) = 1 THEN [bits |-> <<1 - bits[1]>>, carry |-> bits[1]]
  ELSE LET h  == Len(bits) \div 2
           lo == AddOne(SubSeq(bits, h + 1, Len(bits)))
           hi == AddOne(SubSeq(bits, 1, h))
       IN  IF lo.carry = 0
           THEN [bits |-> SubSeq(bits, 1, h) \o lo.bits, carry |-> 0]
           ELSE [bits |-> hi.bits \o lo.bits, carry |-> hi.carry]

\* round to nearest, ties to even, to 53 significant bits
Round53(bits, e) ==
  IF Len(bits) <= 53
  THEN [kind |-> "finite", bits |-> bits \o [k \in 1..(53 - Len(bits)) |-> 0], e |-> e]
  ELSE LET keep   == SubSeq(bits, 1, 53)
           guard  == bits[54]
           sticky == \E k \in 55..Len(bits) : bits[k] = 1
           up     == AddOne(keep)
       IN  IF guard = 1 /\ (sticky \/ keep[53] = 1)
           THEN IF up.carry = 1
                THEN [kind |-> "finite", bits |-> <<1>> \o SubSeq(up.bits, 1, 52),
                      e |-> e + 1]
                ELSE [kind |-> "finite", bits |-> up.bits, e |-> e]
           ELSE [kind |-> "finite", bits |-> keep, e |-> e]

\* n digits of r / d, which lies in [0, 2), by long division, and the
\* remainder that is left (doubled)
RECURSIVE QuotBits(_, _, _)
QuotBits(r, d, n) ==
  IF n = 0 THEN [bits |-> <<>>, rem |-> r]
  ELSE IF n = 1
    THEN LET b == IF r >= d THEN 1 ELSE 0
         IN  [bits |-> <<b>>, rem |-> (r - b * d) * 2]
  ELSE LET h  == n \div 2
           lo == QuotBits(r, d, h)
           hi == QuotBits(lo.rem, d, n - h)
       IN  [bits |-> lo.bits \o hi.bits, rem |-> hi.rem]

\* 54 digits of r / d and a last digit that is 1 when a remainder is left
Quotient(r, d) ==
  LET q == QuotBits(r, d, 54)
  IN  q.bits \o <<IF q.rem > 0 THEN 1 ELSE 0>>

\* a / b of two non-negative integers
DoubleDiv(a, b) ==
  IF b = 0 THEN [kind |-> "inf", bits |-> <<>>, e |-> 0]
  ELSE IF a = 0 THEN [kind |-> "zero", bits |-> <<>>, e |-> 0]
  ELSE IF a >= b
    THEN LET e == CHOOSE k \in 0..29 : b * Pow2(k) <= a /\ b * Pow2(k + 1) > a
         IN  Round53(Quotient(a, b * Pow2(e)), e)
    ELSE LET k == CHOOSE j \in 1..29 : a * Pow2(j) >= b /\ a * Pow2(j - 1) < b
         IN  Round53(Quotient(a * Pow2(k), b), 0 - k)

\* the digits of bits * n + carry, in the same number of digits, and the
\* carry out of the top digit; the low half first, its carry into the high half
RECURSIVE MulBits(_, _, _)
MulBits(bits, n, carry) ==
  IF bits = <<>> THEN [bits |-> <<>>, carry |-> carry]
  ELSE IF Len(bits) = 1
    THEN LET t == bits[1] * n + carry
         IN  [bits |-> <<t % 2>>, carry |-> t \div 2]
  ELSE LET h  == Len(bits) \div 2
           lo == MulBits(SubSeq(bits, h + 1, Len(bits)), n, carry)
           c  == lo.carry
       IN  \* c is settled before the high half is entered
           IF c < 0 THEN lo
           ELSE LET hi == MulBits(SubSeq(bits, 1, h), n, c)
                IN  [bits |-> hi.bits \o lo.bits, carry |-> hi.carry]

\* n * x for a non-negative integer n and a double x that is not infinite
DoubleMul(n, x) ==
  IF n = 0 \/ x.kind = "zero" THEN [kind |-> "zero", bits |-> <<>>, e |-> 0]
  ELSE LET m == MulBits(x.bits, n, 0)
           p == BitsOf(m.carry) \o m.bits
       IN  Round53(p, x.e + Len(p) - 53)

\* x < y
DoubleLess(x, y) ==
  IF x.kind = "inf" THEN FALSE
  ELSE IF y.kind = "inf" THEN TRUE
  ELSE IF x.kind = "zero" THEN y.kind # "zero"
  ELSE IF y.kind = "zero" THEN FALSE
  ELSE \/ x.e < y.e
       \/ /\ x.e = y.e
          /\ \E k \in 1..53 : /\ x.bits[k] < y.bits[k]
                              /\ \A j \in 1..(k - 1) : x.bits[j] = y.bits[j]

\* Math.min(x, y)
DoubleMin(x, y) == IF DoubleLess(y, x) THEN y ELSE x

\* Math.floor(x) of a double below 2^31
DoubleFloor(x) ==
  IF x.kind = "zero" \/ x.e < 0 THEN 0
  ELSE LET v[k \in 0..(x.e + 1)] == IF k = 0 THEN 0 ELSE 2 * v[k - 1] + x.bits[k]
       IN  v[x.e + 1]

\* a variant of sizeCheck that also resizes an image exactly maxSize wide
sizeCheckInclusive(width, height, rgba, maxSize) ==
  IF width >= maxSize \/ height >= maxSize
  THEN LET scale == DoubleMin(DoubleDiv(maxSize, width), DoubleDiv(maxSize, height))
           nw    == Max(1, DoubleFloor(DoubleMul(width, scale)))
           nh    == Max(1, DoubleFloor(DoubleMul(height, scale)))
       IN  [resized |-> TRUE, width |-> nw, height |-> nh,
            rgba |-> resizeNearestRGBA(rgba, width, height, nw, nh)]
  ELSE [resized |-> FALSE, width |-> width, height |-> height, rgba |-> rgba]

\* the optional resize of ensureBmpForMedia (551-562), maxSize already defaulted
\* a variant of sizeCheck whose scale fits the width alone
sizeCheckByWidth(width, height, rgba, maxSize) ==
  IF width > maxSize \/ height > maxSize
  THEN LET scale == DoubleDiv(maxSize, width)
           nw    == Max(1, DoubleFloor(DoubleMul(width, scale)))
           nh    == Max(1, DoubleFloor(DoubleMul(height, scale)))
       IN  [resized |-> TRUE, width |-> nw, height |-> nh,
            rgba |-> resizeNearestRGBA(rgba, width, height, nw, nh)]
  ELSE [resized |-> FALSE, width |-> width, height |-> height, rgba |-> rgba]

sizeCheck(width, height, rgba, maxSize) ==
  IF width > maxSize \/ height > maxSize
  THEN LET scale == DoubleMin(DoubleDiv(maxSize, width), DoubleDiv(maxSize, height))
           nw    == Max(1, DoubleFloor(DoubleMul(width, scale)))
           nh    == Max(1, DoubleFloor(DoubleMul(height, scale)))
       IN  [resized |-> TRUE, width |-> nw, height |-> nh,
            rgba |-> resizeNearestRGBA(rgba, width, height, nw, nh)]
  ELSE [resized |-> FALSE, width |-> width, height |-> height, rgba |-> rgba]

\* options.maxSize ?? 1024
maxSizeOf(option) == IF option = Omitted THEN DefaultMaxSize ELSE option

\* ------------------------------------------------------- inputs (bounded)

\* image references handed to ensureBmpForMedia
RefEmpty   == <<>>
RefAbs     == <<"/", "a", ".", "png">>
RefFile    == <<"file://", "/", "a", ".", "png">>
RefFile2   == <<"file://", "file://", "/", "a", ".", "png">>
RefLocalQ  == <<"/", "a", "?", "format", ":", "webp">>
RefHttp    == <<"http://", "h", "/", "a", ".", "bmp">>
RefHttps   == <<"https://", "h", "/", "a">>
RefHint    == <<"https://", "h", "/", "a", "?", "format", ":", "webp">>
RefHint2   == <<"http://", "h", "/", "a", "?", "format", "=", "webp", "&",
                "format", ":", "webp">>
RefContent == <<"content://", "h", "/", "a">>
RefBlank   == <<" ">>

Refs == {RefEmpty, RefAbs, RefFile, RefFile2, RefLocalQ, RefHttp, RefHttps,
         RefHint, RefHint2, RefContent, RefBlank}

\* the references of one call with every value of options.maxSize; of the
\* two references with a format hint the one with a single hint
PipeRefs == Refs \ {RefHint2}

\* what the user can have typed into the message field
Texts == {<<>>, <<" ">>, <<"hi">>}

\* values of options.maxSize
MaxSizes == {Omitted, 1, 2}

\* file contents: one per container signature, and two that match none
SampleBmp     == <<66, 77, 0>>
SamplePng     == <<137, 80, 78, 71, 13, 10, 26, 10, 0>>
SampleJpeg    == <<255, 216, 255, 224>>
SampleWebp    == <<82, 73, 70, 70, 0, 0, 0, 0, 87, 69, 66, 80>>
SampleGif     == <<71, 73, 70>>
SampleShort   == <<66>>

Samples == {SampleBmp, SamplePng, SampleJpeg, SampleWebp, SampleGif, SampleShort}

\* What UPNG.decode + UPNG.toRGBA8, or JPEG.decode, may hand back.  The
\* decoders are libraries outside this repository: any outcome is possible for
\* any input.  data = NullBytes: no frame (PNG) / no data field (JPEG).
Decoded(w, h, d) == [throws |-> FALSE, width |-> w, height |-> h, data |-> d]
DecodeThrows     == [throws |-> TRUE, width |-> 0, height |-> 0, data |-> NullBytes]

DecodeOutcomes ==
  { DecodeThrows,
    Decoded(1, 1, <<200, 0, 0, 255>>),
    Decoded(1, 1, <<10, 20, 30, 0>>),
    Decoded(1, 2, <<1, 2, 3, 255, 4, 5, 6, 128>>),
    Decoded(3, 2, <<11, 12, 13, 255, 21, 22, 23, 255, 31, 32, 33, 255,
                    41, 42, 43, 255, 51, 52, 53, 255, 61, 62, 63, 0>>),
    Decoded(0, 0, <<>>),
    Decoded(2, 1, NullBytes),
    Decoded(2, 1, <<7, 8, 9, 128>>) }

\* the smaller input sets of the chat turns and of the concurrent callers
ChatRefs     == {RefEmpty, RefFile2, RefHttp}
StreamRefs   == {RefEmpty, RefBlank}
ChatSamples  == {SampleBmp, SamplePng, SampleWebp}
TurnTexts    == {<<>>, <<"hi">>}
TurnRefs     == {RefEmpty, RefAbs}
ChatOutcomes == {DecodeThrows, Decoded(1, 1, <<200, 0, 0, 255>>)}
ConcRefs     == {RefAbs, RefHttp, RefHttps, RefHint}
ConcSamples  == {SamplePng, SampleWebp}
ConcOutcomes == {DecodeThrows, Decoded(1, 2, <<1, 2, 3, 255, 4, 5, 6, 128>>)}

\* ------------------------------------------------------------------ state

VARIABLES
  now,   \* the millisecond clock Date.now() reads
  fs,    \* the device file system: path -> bytes, for the files that exist
  inv,   \* the invocations of ensureBmpForMedia, by record number
  context,          \* useState: the llama context, "null" when none
  conversation,     \* useState: the messages shown
  userInput,        \* useState: the message field
  imageUrl,         \* useState: the image URL field
  isLoading,        \* useState
  isGenerating,     \* useState
  tokensPerSecond,  \* useState: one speed per finished completion
  alert,            \* the title of the last Alert.alert, "none" before any
  turn,             \* the running handleSendMessage calls: their locals
  completions,      \* the calls of context.completion: the messages passed
  applied,          \* a helper function called on its own: arguments and result
  currentPage,      \* useState: "modelSelection" or "conversation"
  isDownloading,    \* useState
  loads,            \* the model loads started from the selection page
  availableGGUFs,   \* useState: the .gguf files listed for the format
  isFetching,       \* useState
  fetches,          \* the axios.get calls of fetchAvailableGGUFs in flight
  stopCalls         \* the calls of context.stopCompletion in flight

pipeVars == <<now, fs, inv>>
chatVars == <<context, conversation, userInput, imageUrl, isLoading, isGenerating,
              tokensPerSecond, alert, turn, completions, stopCalls>>
fetchVars == <<availableGGUFs, isFetching, fetches>>
loadVars == <<currentPage, isDownloading, loads, availableGGUFs, isFetching,
              fetches>>
vars == <<now, fs, inv, context, conversation, userInput, imageUrl, isLoading,
          isGenerating, tokensPerSecond, alert, turn, completions, applied,
          currentPage, isDownloading, loads, availableGGUFs, isFetching,
          fetches, stopCalls>>

\* records 1 and 2 are calls from outside; the others serve recursive calls
TopLevel == {1, 2}
InvIds   == 1..MaxInv

\* toMediaPath up to its first await (or its return)
toMediaPath(uri, t) ==
  IF uri = <<>> THEN [kind |-> "null", path |-> Null]
  ELSE IF StartsWith(uri, "file://") \/ StartsWith(uri, "/")
    THEN [kind |-> "local", path |-> WithFileScheme(StripFileScheme(uri))]
  ELSE IF StartsWith(uri, "http://") \/ StartsWith(uri, "https://")
    THEN [kind |-> "download", path |-> CachePath(t, ExtOf(CleanOf(uri)))]
  ELSE [kind |-> "null", path |-> Null]

IsLocalRef(uri) == toMediaPath(uri, 0).kind = "local"

\* the local files a reference, or its rewritten alternate, can name; on
\* Android RNFS.readFile also opens a path that is itself a file:// URI
LocalFiles ==
  { StripFileScheme(u) : u \in { v \in Refs \cup {ReplaceWebpHint(r) : r \in Refs} :
                                  IsLocalRef(v) } }

IdleInv ==
  [pc |-> "idle", uri |-> <<>>, maxSize |-> Omitted, parent |-> 0, depth |-> 0,
   dest |-> Null, local |-> Null, altUri |-> Null, altDest |-> Null,
   altLocal |-> Null, bytes |-> <<>>, mime |-> "", rgba |-> <<>>,
   srcWidth |-> 0, srcHeight |-> 0, width |-> 0, height |-> 0,
   bmpBytes |-> <<>>, outPath |-> Null, result |-> Null, trace |-> <<>>]

Exists(path) == path \in DOMAIN fs

WriteFile(files, path, bytes) ==
  [p \in (DOMAIN files) \cup {path} |-> IF p = path THEN bytes ELSE files[p]]

Log(r, events) == [r EXCEPT !.trace = r.trace \o events]

\* `return x` of ensureBmpForMedia: the promise resolves
Return(r, value) ==
  [r EXCEPT !.pc = "done", !.result = value,
            !.trace = r.trace \o <<IF value = Null THEN "return:null" ELSE "return:path">>]

\* a variant of outerCatch that rethrows: the promise rejects
outerCatchRethrows(r) == [Log(r, <<"catch:outer">>) EXCEPT !.pc = "rejected"]

\* the outer catch of ensureBmpForMedia (lines 580-584)
outerCatch(r) == Return(Log(r, <<"catch:outer">>), Null)

\* the size check, the encode and the outPath of ensureBmpForMedia (541-570)
Finish(r, w0, h0, rgba0, t) ==
  LET none  == rgba0 = NullBytes
      w1    == IF none THEN 1 ELSE w0
      h1    == IF none THEN 1 ELSE h0
      rgba1 == IF none THEN <<255, 255, 255, 255>> ELSE rgba0
      sized == sizeCheck(w1, h1, rgba1, maxSizeOf(r.maxSize))
  IN  [r EXCEPT !.pc = "writing", !.rgba = rgba1, !.srcWidth = w1,
                !.srcHeight = h1, !.width = sized.width, !.height = sized.height,
                !.bmpBytes = writeBmp24(sized.rgba, sized.width, sized.height),
                !.outPath = CachePath(t, "bmp"),
                !.trace = r.trace
                          \o (IF none THEN <<"placeholder:nodata">> ELSE <<>>)
                          \o (IF sized.resized THEN <<"resize">> ELSE <<>>)
                          \o <<"encode">>]

\* a variant of Placeholder whose pixel is transparent black
PlaceholderBlack(r, t) ==
  Finish(Log(r, <<"placeholder">>), 1, 1, <<0, 0, 0, 0>>, t)

\* width = 1; height = 1; rgba = new Uint8Array([255,255,255,255])
Placeholder(r, t) ==
  Finish(Log(r, <<"placeholder">>), 1, 1, <<255, 255, 255, 255>>, t)

\* a PNG decode that did not throw: first frame, composited when the length fits
AfterPng(r, o, t) ==
  LET fits == o.data # NullBytes /\ Len(o.data) = o.width * o.height * 4
  IN  Finish(Log(r, <<"png:ok">> \o (IF fits THEN <<"composite">> ELSE <<>>)),
             o.width, o.height,
             IF fits THEN compositeOnWhite(o.data) ELSE o.data, t)

\* the WebP branch once the hint is known to be present (422-441)
WebpAlternate(r, t) ==
  LET altUri == ReplaceWebpHint(r.uri)
      m      == toMediaPath(altUri, t)
      r1     == Log([r EXCEPT !.altUri = altUri], <<"alt:resolve">>)
  IN  CASE m.kind = "null"     -> Placeholder(r1, t)
        [] m.kind = "local"    -> [r1 EXCEPT !.pc = "altReading", !.altLocal = m.path]
        [] m.kind = "download" -> [r1 EXCEPT !.pc = "altDownloading", !.altDest = m.path]

\* a variant of AfterRead that re-encodes a BMP source as well
AfterReadEncodeBmp(r, bytes, png, jpeg, t) ==
  LET mime == detectMimeFromBytes(bytes)
      r1   == Log([r EXCEPT !.bytes = bytes, !.mime = mime], <<"read:ok", mime>>)
  IN  IF mime = "image/bmp" THEN Placeholder(r1, t)
      ELSE IF mime = "image/webp" THEN
        IF IncludesWebpHint(r.uri) THEN WebpAlternate(r1, t) ELSE Placeholder(r1, t)
      ELSE IF mime = "image/png" THEN
        IF png.throws THEN outerCatch(Log(r1, <<"png:throw">>))
        ELSE AfterPng(r1, png, t)
      ELSE IF mime = "image/jpeg" THEN
        IF jpeg.throws \/ jpeg.data = NullBytes
        THEN outerCatch(Log(r1, <<"jpeg:throw">>))
        ELSE Finish(Log(r1, <<"jpeg:ok">>), jpeg.width, jpeg.height, jpeg.data, t)
      ELSE
        IF ~png.throws THEN AfterPng(r1, png, t)
        ELSE IF jpeg.throws \/ jpeg.data = NullBytes
        THEN Placeholder(Log(r1, <<"png:throw", "jpeg:throw">>), t)
        ELSE Finish(Log(r1, <<"png:throw", "jpeg:ok">>),
                    jpeg.width, jpeg.height, jpeg.data, t)

\* a variant of AfterRead that trusts a .bmp suffix of the reference
AfterReadBySuffix(r, bytes, png, jpeg, t) ==
  LET mime == IF ExtOf(CleanOf(r.uri)) = "bmp" THEN "image/bmp"
              ELSE detectMimeFromBytes(bytes)
      r1   == Log([r EXCEPT !.bytes = bytes, !.mime = mime], <<"read:ok", mime>>)
  IN  IF mime = "image/bmp" THEN Return(Log(r1, <<"passthrough">>), r.local)
      ELSE IF mime = "image/webp" THEN
        IF IncludesWebpHint(r.uri) THEN WebpAlternate(r1, t) ELSE Placeholder(r1, t)
      ELSE IF mime = "image/png" THEN
        IF png.throws THEN outerCatch(Log(r1, <<"png:throw">>))
        ELSE AfterPng(r1, png, t)
      ELSE IF mime = "image/jpeg" THEN
        IF jpeg.throws \/ jpeg.data = NullBytes
        THEN outerCatch(Log(r1, <<"jpeg:throw">>))
        ELSE Finish(Log(r1, <<"jpeg:ok">>), jpeg.width, jpeg.height, jpeg.data, t)
      ELSE
        IF ~png.throws THEN AfterPng(r1, png, t)
        ELSE IF jpeg.throws \/ jpeg.data = NullBytes
        THEN Placeholder(Log(r1, <<"png:throw", "jpeg:throw">>), t)
        ELSE Finish(Log(r1, <<"png:throw", "jpeg:ok">>),
                    jpeg.width, jpeg.height, jpeg.data, t)

\* ensureBmpForMedia from the sniff to its next await (405-570); png and jpeg
\* are what the two decoders give for these bytes
AfterRead(r, bytes, png, jpeg, t) ==
  LET mime == detectMimeFromBytes(bytes)
      r1   == Log([r EXCEPT !.bytes = bytes, !.mime = mime], <<"read:ok", mime>>)
  IN  IF mime = "image/bmp" THEN Return(Log(r1, <<"passthrough">>), r.local)
      ELSE IF mime = "image/webp" THEN
        IF IncludesWebpHint(r.uri) THEN WebpAlternate(r1, t) ELSE Placeholder(r1, t)
      ELSE IF mime = "image/png" THEN
        IF png.throws THEN outerCatch(Log(r1, <<"png:throw">>))
        ELSE AfterPng(r1, png, t)
      ELSE IF mime = "image/jpeg" THEN
        IF jpeg.throws \/ jpeg.data = NullBytes
        THEN outerCatch(Log(r1, <<"jpeg:throw">>))
        ELSE Finish(Log(r1, <<"jpeg:ok">>), jpeg.width, jpeg.height, jpeg.data, t)
      ELSE
        IF ~png.throws THEN AfterPng(r1, png, t)
        ELSE IF jpeg.throws \/ jpeg.data = NullBytes
        THEN Placeholder(Log(r1, <<"png:throw", "jpeg:throw">>), t)
        ELSE Finish(Log(r1, <<"png:throw", "jpeg:ok">>),
                    jpeg.width, jpeg.height, jpeg.data, t)

\* ensureBmpForMedia(uri, options) from its call to its first await
StartInv(uri, maxSize, parent, depth, t) ==
  LET r == [IdleInv EXCEPT !.uri = uri, !.maxSize = maxSize, !.parent = parent,
                           !.depth = depth]
      m == toMediaPath(uri, t)
  IN  CASE m.kind = "null"     -> Return(Log(r, <<"resolve:null">>), Null)
        [] m.kind = "local"    -> [r EXCEPT !.pc = "reading", !.local = m.path,
                                            !.trace = <<"resolve:local">>]
        [] m.kind = "download" -> [r EXCEPT !.pc = "downloading", !.dest = m.path,
                                            !.trace = <<"download">>]

\* --------------------------------------------------------------- actions

\* const INITIAL_CONVERSATION
INITIAL_CONVERSATION ==
  <<[role |-> "system", text |-> <<"sys">>, image |-> <<>>,
     thought |-> Undefined, showThought |-> FALSE]>>

\* a handleSendMessage call not yet made; current, currentThought and
\* inThinkBlock are its locals currentAssistantMessage, currentThought and
\* inThinkBlock (735-737), tokens counts the calls of its token callback
IdleTurn ==
  [pc |-> "idle", attachedImageUrl |-> <<>>, userText |-> <<>>, chat |-> <<>>,
   mediaPath |-> Null, current |-> <<>>, currentThought |-> <<>>,
   inThinkBlock |-> FALSE, tokens |-> 0]

\* the awaits of handleSendMessage at which an accepted turn can be (758,
\* 785, 788, 798, 808)
TurnPending ==
  {"awaitMedia", "isMultimodalEnabled", "getMultimodalSupport",
   "getFormattedChat", "completing"}

\* the turns of the model; turn k awaits invocation record k
TurnIds == {1, 2}

\* number of model loads started
MaxLoads == 2
\* number of list fetches in flight at once
MaxFetches == 1
\* number of context.stopCompletion calls in flight at once
MaxStops == 2
LoadIds == 1..MaxLoads

\* a press on the selection page that has started nothing yet; context is the
\* value of `context` in the render whose handlers the press runs, initial is
\* the INITIAL_CONVERSATION array that render created (35-41), and shared
\* says that the one message of a conversation reset by this record is the
\* very object initial[1], not a copy of it, while a later loadModel call of
\* the record can still read the array
IdleLoad ==
  [pc |-> "idle", via |-> "none", context |-> "null", trace |-> <<>>,
   initial |-> INITIAL_CONVERSATION, shared |-> FALSE]

\* the load records when the only message of the conversation is an object of
\* the render of record l (l = 0: of a render no record belongs to)
SharedWith(l) == [j \in LoadIds |-> [loads[j] EXCEPT !.shared = (j = l)]]

\* no helper function has been called on its own
NotApplied ==
  [fn |-> "none", bytes |-> <<>>, width |-> 0, height |-> 0, maxSize |-> Omitted,
   dstW |-> 0, dstH |-> 0, done |-> FALSE, out |-> <<>>]

\* the clock, the local files (none, or all with the same bytes) and no call yet
InitPipe(contents) ==
  /\ applied = NotApplied
  /\ now = 0
  /\ \/ fs = <<>>
     \/ \E c \in contents : fs = [p \in LocalFiles |-> c]
  /\ inv = [i \in InvIds |-> IdleInv]

InitApp ==
  /\ conversation = INITIAL_CONVERSATION
  /\ userInput = <<>>
  /\ imageUrl = <<>>
  /\ isLoading = FALSE
  /\ isGenerating = FALSE
  /\ tokensPerSecond = <<>>
  /\ alert = "none"
  /\ turn = [k \in TurnIds |-> IdleTurn]
  /\ completions = <<>>
  /\ isDownloading = FALSE
  /\ loads = [l \in LoadIds |-> IdleLoad]
  /\ isFetching = FALSE
  /\ fetches = 0
  /\ stopCalls = 0

\* the app as started, no model loaded
Init ==
  /\ InitPipe(Samples)
  /\ InitApp
  /\ context = "null"
  /\ currentPage = "modelSelection"
  /\ availableGGUFs = <<>>

\* the clock advances
Tick ==
  /\ now < MaxClock
  /\ now' = now + 1
  /\ UNCHANGED <<fs, inv>>
  /\ UNCHANGED chatVars
  /\ UNCHANGED applied
  /\ UNCHANGED loadVars

\* a caller invokes ensureBmpForMedia(uri, {maxSize})
Call(i, refs, sizes) ==
  /\ inv[i].pc = "idle"
  /\ \E uri \in refs, ms \in sizes :
        inv' = [inv EXCEPT ![i] = StartInv(uri, ms, 0, 0, now)]
  /\ UNCHANGED <<now, fs>>
  /\ UNCHANGED chatVars
  /\ UNCHANGED applied
  /\ UNCHANGED loadVars

\* RNFS.downloadFile(...).promise settles inside toMediaPath (264-272); the
\* server answers with one of `contents`, or with a status that writes no file
DownloadDone(i, contents) ==
  /\ inv[i].pc = "downloading"
  /\ \/ /\ inv' = [inv EXCEPT ![i] = Return(Log(@, <<"download:rejected">>), Null)]
        /\ UNCHANGED fs
     \/ /\ inv' = [inv EXCEPT ![i] = [Log(@, <<"download:ok">>) EXCEPT
                                        !.pc = "reading",
                                        !.local = WithFileScheme(inv[i].dest)]]
        /\ \/ UNCHANGED fs
           \/ \E c \in contents : fs' = WriteFile(fs, inv[i].dest, c)
  /\ UNCHANGED now
  /\ UNCHANGED chatVars
  /\ UNCHANGED applied
  /\ UNCHANGED loadVars

\* RNFS.readFile(nativePath) settles (400); the decoders answer with one of
\* `outcomes`
ReadDone(i, outcomes) ==
  /\ inv[i].pc = "reading"
  /\ LET nativePath == StripFileScheme(inv[i].local)
     IN  \/ inv' = [inv EXCEPT ![i] = outerCatch(Log(@, <<"read:throw">>))]
         \/ /\ Exists(nativePath)
            /\ \E png \in outcomes, jpeg \in outcomes :
                 inv' = [inv EXCEPT ![i] = AfterRead(@, fs[nativePath], png, jpeg, now)]
  /\ UNCHANGED <<now, fs>>
  /\ UNCHANGED chatVars
  /\ UNCHANGED applied
  /\ UNCHANGED loadVars

\* the download of the alternate rendition settles (427)
AltDownloadDone(i, contents) ==
  /\ inv[i].pc = "altDownloading"
  /\ \/ /\ inv' = [inv EXCEPT ![i] = Placeholder(Log(@, <<"alt:rejected">>), now)]
        /\ UNCHANGED fs
     \/ /\ inv' = [inv EXCEPT ![i] = [Log(@, <<"alt:downloaded">>) EXCEPT
                                        !.pc = "altReading",
                                        !.altLocal = WithFileScheme(inv[i].altDest)]]
        /\ \/ UNCHANGED fs
           \/ \E c \in contents : fs' = WriteFile(fs, inv[i].altDest, c)
  /\ UNCHANGED now
  /\ UNCHANGED chatVars
  /\ UNCHANGED applied
  /\ UNCHANGED loadVars

\* the least free record for a recursive call, 0 when there is none
FreeChild ==
  LET free == {j \in InvIds \ TopLevel : inv[j].pc = "idle"}
  IN  IF free = {} THEN 0 ELSE CHOOSE j \in free : \A k \in free : j <= k

\* a variant of AltReadDone that recurses whatever the alternate holds
AltReadDoneUnsniffed(i) ==
  /\ inv[i].pc = "altReading"
  /\ LET altNativePath == StripFileScheme(inv[i].altLocal)
         altMime == detectMimeFromBytes(fs[altNativePath])
     IN  \/ inv' = [inv EXCEPT ![i] =
                      Placeholder(Log(@, <<"alt:read:throw", "catch:webp">>), now)]
         \/ /\ Exists(altNativePath)
            /\ FreeChild # 0
            /\ inv' = [inv EXCEPT
                         ![i] = [Log(@, <<"recurse">>) EXCEPT !.pc = "awaitRecursive"],
                         ![FreeChild] = StartInv(inv[i].altUri, inv[i].maxSize, i,
                                                 inv[i].depth + 1, now)]
  /\ UNCHANGED <<now, fs>>
  /\ UNCHANGED chatVars
  /\ UNCHANGED applied
  /\ UNCHANGED loadVars

\* the read of the alternate rendition settles (430-440)
AltReadDone(i) ==
  /\ inv[i].pc = "altReading"
  /\ LET altNativePath == StripFileScheme(inv[i].altLocal)
         altMime == detectMimeFromBytes(fs[altNativePath])
     IN  \/ inv' = [inv EXCEPT ![i] =
                      Placeholder(Log(@, <<"alt:read:throw", "catch:webp">>), now)]
         \/ /\ Exists(altNativePath)
            /\ altMime \notin {"image/jpeg", "image/png"}
            /\ inv' = [inv EXCEPT ![i] =
                         Placeholder(Log(@, <<"alt:mime:other">>), now)]
         \/ /\ Exists(altNativePath)
            /\ altMime \in {"image/jpeg", "image/png"}
            /\ FreeChild # 0
            /\ inv' = [inv EXCEPT
                         ![i] = [Log(@, <<"recurse">>) EXCEPT !.pc = "awaitRecursive"],
                         ![FreeChild] = StartInv(inv[i].altUri, inv[i].maxSize, i,
                                                 inv[i].depth + 1, now)]
  /\ UNCHANGED <<now, fs>>
  /\ UNCHANGED chatVars
  /\ UNCHANGED applied
  /\ UNCHANGED loadVars

\* a variant of RecursiveReturn that hands back the file that was sniffed
RecursiveReturnSniffed(i) ==
  /\ inv[i].pc = "awaitRecursive"
  /\ \E j \in InvIds :
       /\ inv[j].parent = i
       /\ inv[j].pc = "done"
       /\ inv' = [inv EXCEPT ![i] = Return(@, inv[i].altLocal)]
  /\ UNCHANGED <<now, fs>>
  /\ UNCHANGED chatVars
  /\ UNCHANGED applied
  /\ UNCHANGED loadVars

\* `return await ensureBmpForMedia(altUri, options)` (438)
RecursiveReturn(i) ==
  /\ inv[i].pc = "awaitRecursive"
  /\ \E j \in InvIds :
       /\ inv[j].parent = i
       /\ inv[j].pc = "done"
       /\ inv' = [inv EXCEPT ![i] = Return(@, inv[j].result)]
  /\ UNCHANGED <<now, fs>>
  /\ UNCHANGED chatVars
  /\ UNCHANGED applied
  /\ UNCHANGED loadVars

\* a variant of WriteDone that goes on to the stat after a failed write
WriteDoneUnchecked(i) ==
  /\ inv[i].pc = "writing"
  /\ \/ fs' = WriteFile(fs, inv[i].outPath, inv[i].bmpBytes)
     \/ fs' = WriteFile(fs, inv[i].outPath,
                        SubSeq(inv[i].bmpBytes, 1, Len(inv[i].bmpBytes) \div 2))
  /\ inv' = [inv EXCEPT ![i] = [Log(@, <<"write:ok">>) EXCEPT !.pc = "statting"]]
  /\ UNCHANGED now
  /\ UNCHANGED chatVars
  /\ UNCHANGED applied
  /\ UNCHANGED loadVars

\* RNFS.writeFile(outPath, bmpBase64, "base64") settles (572)
WriteDone(i) ==
  /\ inv[i].pc = "writing"
  /\ \/ /\ fs' = WriteFile(fs, inv[i].outPath, inv[i].bmpBytes)
        /\ inv' = [inv EXCEPT ![i] = [Log(@, <<"write:ok">>) EXCEPT !.pc = "statting"]]
     \/ /\ \/ UNCHANGED fs
           \/ fs' = WriteFile(fs, inv[i].outPath,
                              SubSeq(inv[i].bmpBytes, 1, Len(inv[i].bmpBytes) \div 2))
        /\ inv' = [inv EXCEPT ![i] = outerCatch(Log(@, <<"write:throw">>))]
  /\ UNCHANGED now
  /\ UNCHANGED chatVars
  /\ UNCHANGED applied
  /\ UNCHANGED loadVars

\* RNFS.stat(outPath) settles (576-579)
StatDone(i) ==
  /\ inv[i].pc = "statting"
  /\ \/ /\ Exists(inv[i].outPath)
        /\ inv' = [inv EXCEPT ![i] =
                     Return(Log(@, <<"stat:ok">>), WithFileScheme(inv[i].outPath))]
     \/ inv' = [inv EXCEPT ![i] = outerCatch(Log(@, <<"stat:throw">>))]
  /\ UNCHANGED <<now, fs>>
  /\ UNCHANGED chatVars
  /\ UNCHANGED applied
  /\ UNCHANGED loadVars

\* the steps of an invocation that is under way
Step(i, outcomes, contents) ==
  \/ DownloadDone(i, contents)
  \/ ReadDone(i, outcomes)
  \/ AltDownloadDone(i, contents)
  \/ AltReadDone(i)
  \/ RecursiveReturn(i)
  \/ WriteDone(i)
  \/ StatDone(i)

\* the steps of an invocation whose reference carries no format hint: no
\* alternate download is tried for it
PlainStep(i, outcomes, contents) ==
  \/ DownloadDone(i, contents)
  \/ ReadDone(i, outcomes)
  \/ WriteDone(i)
  \/ StatDone(i)

\* one call of ensureBmpForMedia from outside, and the recursion it causes
Next ==
  \/ Tick
  \/ Call(1, PipeRefs, MaxSizes)
  \/ \E i \in InvIds : Step(i, DecodeOutcomes, Samples)

Spec == Init /\ [][Next]_vars

\* ------------------------------------------------------------ chat turn

\* number of tokens a completion streams at most
MaxTokens == 2

\* s.trim()
RECURSIVE TrimLeft(_)
TrimLeft(s) == IF s # <<>> /\ Head(s) = " " THEN TrimLeft(Tail(s)) ELSE s
RECURSIVE TrimRight(_)
TrimRight(s) ==
  IF s # <<>> /\ s[Len(s)] = " " THEN TrimRight(SubSeq(s, 1, Len(s) - 1)) ELSE s
Trim(s) == TrimRight(TrimLeft(s))

\* chat.map(...) of handleSendMessage (765-779): url is the image_url part
apiMessages(chat, mediaPath, userText) ==
  [idx \in 1..Len(chat) |->
     LET m == chat[idx]
         isLatestUser == m.role = "user" /\ idx = Len(chat)
     IN  IF isLatestUser /\ mediaPath # Null
         THEN [role |-> "user", text |-> userText, image |-> <<>>,
               url |-> StripFileScheme(mediaPath)]
         ELSE [role |-> m.role, text |-> m.text, image |-> m.image, url |-> Null]]

\* the message field of the conversation page is edited, whatever the turns
\* are doing (onChangeText={setUserInput}, 1051-1057)
TypeMessage(texts) ==
  /\ currentPage = "conversation"
  /\ \E v \in texts : userInput' = v
  /\ UNCHANGED <<context, conversation, imageUrl, isLoading, isGenerating,
                 tokensPerSecond, alert, turn, completions>>
  /\ UNCHANGED pipeVars
  /\ UNCHANGED applied
  /\ UNCHANGED stopCalls
  /\ UNCHANGED loadVars

\* the image URL field of the conversation page is edited, whatever the
\* turns are doing (onChangeText={setImageUrl}, 1078-1086)
TypeImageUrl(refs) ==
  /\ currentPage = "conversation"
  /\ \E u \in refs : imageUrl' = u
  /\ UNCHANGED <<context, conversation, userInput, isLoading, isGenerating,
                 tokensPerSecond, alert, turn, completions>>
  /\ UNCHANGED pipeVars
  /\ UNCHANGED applied
  /\ UNCHANGED stopCalls
  /\ UNCHANGED loadVars

\* a variant of Finally that leaves the image URL field as it is
FinallyKeepsImageUrl(k) ==
  /\ isLoading' = FALSE
  /\ isGenerating' = FALSE
  /\ imageUrl' = imageUrl
  /\ turn' = [turn EXCEPT ![k].pc = "finished"]

\* the finally block of handleSendMessage (873-877)
Finally(k) ==
  /\ isLoading' = FALSE
  /\ isGenerating' = FALSE
  /\ imageUrl' = <<>>
  /\ turn' = [turn EXCEPT ![k].pc = "finished"]

\* a variant of handleSendMessage that empties the message field of a
\* refused send
handleSendMessageClearsInput(k) ==
  /\ turn[k].pc = "idle"
  /\ ~isGenerating /\ ~isLoading
  /\ IF context = "null" THEN
       /\ alert' = "Model Not Loaded"
       /\ userInput' = <<>>
       /\ UNCHANGED <<conversation, isLoading, isGenerating, turn, inv>>
     ELSE IF Trim(userInput) = <<>> /\ Trim(imageUrl) = <<>> THEN
       /\ alert' = "Input Error"
       /\ userInput' = <<>>
       /\ UNCHANGED <<conversation, isLoading, isGenerating, turn, inv>>
     ELSE
       LET newConversation ==
             Append(conversation,
                    [role |-> "user", text |-> userInput, image |-> imageUrl,
                     thought |-> Undefined, showThought |-> FALSE])
       IN  /\ conversation' =
                Append(newConversation,
                       [role |-> "assistant", text |-> <<>>, image |-> <<>>,
                        thought |-> Undefined, showThought |-> FALSE])
           /\ userInput' = <<>>
           /\ isLoading' = TRUE
           /\ isGenerating' = TRUE
           /\ turn' = [turn EXCEPT ![k] =
                         [pc |-> IF imageUrl # <<>> THEN "awaitMedia"
                                 ELSE "isMultimodalEnabled",
                          attachedImageUrl |-> imageUrl,
                          userText |-> userInput, chat |-> newConversation,
                          mediaPath |-> Null, current |-> <<>>,
                          currentThought |-> <<>>, inThinkBlock |-> FALSE,
                          tokens |-> 0]]
           /\ inv' = IF imageUrl # <<>>
                     THEN [inv EXCEPT ![k] =
                             StartInv(imageUrl, DefaultMaxSize, 0, 0, now)]
                     ELSE inv
           /\ UNCHANGED alert
  /\ UNCHANGED <<now, fs, context, imageUrl, tokensPerSecond, completions>>
  /\ UNCHANGED applied
  /\ UNCHANGED stopCalls
  /\ UNCHANGED loadVars

\* Send is pressed: handleSendMessage up to its first await (692-759)
handleSendMessage(k) ==
  /\ turn[k].pc = "idle"
  /\ ~isGenerating /\ ~isLoading
  /\ IF context = "null" THEN
       /\ alert' = "Model Not Loaded"
       /\ UNCHANGED <<conversation, userInput, isLoading, isGenerating, turn, inv>>
     ELSE IF Trim(userInput) = <<>> /\ Trim(imageUrl) = <<>> THEN
       /\ alert' = "Input Error"
       /\ UNCHANGED <<conversation, userInput, isLoading, isGenerating, turn, inv>>
     ELSE
       LET newConversation ==
             Append(conversation,
                    [role |-> "user", text |-> userInput, image |-> imageUrl,
                     thought |-> Undefined, showThought |-> FALSE])
       IN  /\ conversation' =
                Append(newConversation,
                       [role |-> "assistant", text |-> <<>>, image |-> <<>>,
                        thought |-> Undefined, showThought |-> FALSE])
           /\ userInput' = <<>>
           /\ isLoading' = TRUE
           /\ isGenerating' = TRUE
           /\ turn' = [turn EXCEPT ![k] =
                         [pc |-> IF imageUrl # <<>> THEN "awaitMedia"
                                 ELSE "isMultimodalEnabled",
                          attachedImageUrl |-> imageUrl,
                          userText |-> userInput, chat |-> newConversation,
                          mediaPath |-> Null, current |-> <<>>,
                          currentThought |-> <<>>, inThinkBlock |-> FALSE,
                          tokens |-> 0]]
           /\ inv' = IF imageUrl # <<>>
                     THEN [inv EXCEPT ![k] =
                             StartInv(imageUrl, DefaultMaxSize, 0, 0, now)]
                     ELSE inv
           /\ UNCHANGED alert
  /\ UNCHANGED <<now, fs, context, imageUrl, tokensPerSecond, completions>>
  /\ UNCHANGED applied
  /\ UNCHANGED stopCalls
  /\ UNCHANGED loadVars

\* a variant of SendAfterMedia that gives the turn up when an attached image
\* yields no media path
SendAfterMediaOrAbort(k) ==
  /\ turn[k].pc = "awaitMedia"
  /\ inv[k].pc \in {"done", "rejected"}
  /\ IF inv[k].result = Null THEN
       /\ alert' = "Error During Inference"
       /\ Finally(k)
       /\ UNCHANGED completions
     ELSE
       /\ turn' = [turn EXCEPT ![k].pc = "isMultimodalEnabled",
                               ![k].mediaPath = inv[k].result]
       /\ UNCHANGED <<alert, isLoading, isGenerating, imageUrl, completions>>
  /\ UNCHANGED <<context, conversation, userInput, tokensPerSecond>>
  /\ UNCHANGED pipeVars
  /\ UNCHANGED applied
  /\ UNCHANGED stopCalls
  /\ UNCHANGED loadVars

\* ensureBmpForMedia has settled (757-785): mediaPath is known and the
\* handler goes on to the await of context.isMultimodalEnabled; a rejected
\* ensureBmpForMedia would land in the catch
SendAfterMedia(k) ==
  /\ turn[k].pc = "awaitMedia"
  /\ inv[k].pc \in {"done", "rejected"}
  /\ IF inv[k].pc = "rejected" THEN
       /\ alert' = "Error During Inference"
       /\ Finally(k)
       /\ UNCHANGED completions
     ELSE
       /\ turn' = [turn EXCEPT ![k].pc = "isMultimodalEnabled",
                               ![k].mediaPath = inv[k].result]
       /\ UNCHANGED <<alert, isLoading, isGenerating, imageUrl, completions>>
  /\ UNCHANGED <<context, conversation, userInput, tokensPerSecond>>
  /\ UNCHANGED pipeVars
  /\ UNCHANGED applied
  /\ UNCHANGED stopCalls
  /\ UNCHANGED loadVars

\* context.isMultimodalEnabled has settled (785-787): when it resolved true
\* getMultimodalSupport is awaited next; a rejection is only logged (791)
MultimodalEnabledSettled(k) ==
  /\ turn[k].pc = "isMultimodalEnabled"
  /\ \E next \in {"getMultimodalSupport", "getFormattedChat"} :
       turn' = [turn EXCEPT ![k].pc = next]
  /\ UNCHANGED <<context, conversation, userInput, imageUrl, isLoading,
                 isGenerating, tokensPerSecond, alert, completions>>
  /\ UNCHANGED pipeVars
  /\ UNCHANGED applied
  /\ UNCHANGED stopCalls
  /\ UNCHANGED loadVars

\* context.getMultimodalSupport has settled (788-798), resolved or rejected
MultimodalSupportSettled(k) ==
  /\ turn[k].pc = "getMultimodalSupport"
  /\ turn' = [turn EXCEPT ![k].pc = "getFormattedChat"]
  /\ UNCHANGED <<context, conversation, userInput, imageUrl, isLoading,
                 isGenerating, tokensPerSecond, alert, completions>>
  /\ UNCHANGED pipeVars
  /\ UNCHANGED applied
  /\ UNCHANGED stopCalls
  /\ UNCHANGED loadVars

\* context.getFormattedChat has settled, resolved or rejected (798-813):
\* context.completion is called with the messages built at 765-779
FormattedChatSettled(k) ==
  /\ turn[k].pc = "getFormattedChat"
  /\ turn' = [turn EXCEPT ![k].pc = "completing"]
  /\ completions' =
       Append(completions,
              [turn |-> k,
               messages |-> apiMessages(turn[k].chat, turn[k].mediaPath,
                                        turn[k].userText)])
  /\ UNCHANGED <<context, conversation, userInput, imageUrl, isLoading,
                 isGenerating, tokensPerSecond, alert>>
  /\ UNCHANGED pipeVars
  /\ UNCHANGED applied
  /\ UNCHANGED stopCalls
  /\ UNCHANGED loadVars

\* s.includes(tag)
Includes(s, tag) == \E i \in 1..Len(s) : s[i] = tag

\* s.indexOf(pat), counted from 1: where pat first occurs in s, 0 when nowhere
IndexOf(s, pat) ==
  LET hits == {i \in 1..(Len(s) - Len(pat) + 1) :
                 SubSeq(s, i, i + Len(pat) - 1) = pat}
  IN  IF hits = {} THEN 0 ELSE CHOOSE i \in hits : \A j \in hits : i <= j

\* s.replace(pat, "") for a string pat: its first occurrence is taken out
RemoveFirst(s, pat) ==
  LET i == IndexOf(s, pat)
  IN  IF i = 0 THEN s
      ELSE SubSeq(s, 1, i - 1) \o SubSeq(s, i + Len(pat), Len(s))

\* s.replace(/<think>[\s\S]*?<\/think>/g, "") (847-848): every stretch from
\* an opening tag to the nearest closing tag after it is taken out
RECURSIVE StripThinkBlocks(_)
StripThinkBlocks(s) ==
  LET open  == IndexOf(s, <<"<think>">>)
      rest  == SubSeq(s, open + 1, Len(s))
      close == IndexOf(rest, <<"</think>">>)
  IN  IF open = 0 \/ close = 0 THEN s
      ELSE SubSeq(s, 1, open - 1)
             \o StripThinkBlocks(SubSeq(rest, close + 1, Len(rest)))

\* the tokens a completion can stream: a word, a blank, an opening think
\* tag with the first letter of the thought, a closing tag, and a whole
\* think block in one token
Tokens ==
  {<<"tok">>, <<" ">>, <<"<think>", "a">>, <<"</think>">>,
   <<"<think>", "a", "</think>">>}
\* the smaller sets of tokens: without a blank and a whole block, and
\* words only
ChatTokens  == {<<"tok">>, <<"<think>", "a">>, <<"</think>">>}
PlainTokens == {<<"tok">>}

\* the token callback of context.completion (814-862): the token is added to
\* the turn's currentAssistantMessage and its think tags are followed
\* (819-845); a closing tag replaces the last message of the conversation by
\* a copy with the block removed and its thought set (825-841); then the
\* content of the last message is set to everything streamed without its
\* think blocks, trimmed (847-856).  That last write is made in the message
\* object itself (853): when the conversation is the INITIAL_CONVERSATION a
\* load record reset it to, the record's array changes with it
TokenCallback(k, tokens) ==
  /\ turn[k].pc = "completing"
  /\ turn[k].tokens < MaxTokens
  /\ \E token \in tokens :
       LET opens   == Includes(token, "<think>")
           closes  == ~opens /\ Includes(token, "</think>")
           current == turn[k].current \o token
           finalThought ==
             Trim(RemoveFirst(turn[k].currentThought, <<"</think>">>))
           last    == Len(conversation)
           closed  ==
             IF closes
             THEN [conversation EXCEPT
                     ![last].text =
                       RemoveFirst(@, <<"<think>">> \o finalThought
                                        \o <<"</think>">>),
                     ![last].thought = finalThought]
             ELSE conversation
           visibleContent == Trim(StripThinkBlocks(current))
       IN  /\ turn' =
                [turn EXCEPT
                   ![k].current = current,
                   ![k].tokens = @ + 1,
                   ![k].inThinkBlock =
                     IF opens THEN TRUE ELSE IF closes THEN FALSE ELSE @,
                   ![k].currentThought =
                     IF opens THEN RemoveFirst(token, <<"<think>">>)
                     ELSE IF closes THEN <<>>
                     ELSE IF turn[k].inThinkBlock THEN @ \o token
                     ELSE @]
           /\ conversation' = [closed EXCEPT ![last].text = visibleContent]
           /\ loads' =
                IF last # 1 THEN loads
                ELSE IF closes THEN SharedWith(0)
                ELSE [j \in LoadIds |->
                        IF loads[j].shared
                        THEN [loads[j] EXCEPT !.initial[1].text = visibleContent]
                        ELSE loads[j]]
  /\ UNCHANGED <<context, userInput, imageUrl, isLoading, isGenerating,
                 tokensPerSecond, alert, completions>>
  /\ UNCHANGED pipeVars
  /\ UNCHANGED applied
  /\ UNCHANGED stopCalls
  /\ UNCHANGED <<currentPage, isDownloading>>
  /\ UNCHANGED fetchVars

\* a Show Thought or Hide Thought button is pressed: toggleThought
\* (115-121); the button is there for a message after the first that has a
\* thought (989, 999-1010); position idx here is messageIndex + 1
toggleThought(idx) ==
  /\ currentPage = "conversation" /\ ~isDownloading
  /\ idx \in 2..Len(conversation)
  /\ conversation[idx].thought \notin {Undefined, <<>>}
  /\ conversation' = [conversation EXCEPT ![idx].showThought = ~@]
  /\ UNCHANGED <<context, userInput, imageUrl, isLoading, isGenerating,
                 tokensPerSecond, alert, turn, completions>>
  /\ UNCHANGED pipeVars
  /\ UNCHANGED applied
  /\ UNCHANGED stopCalls
  /\ UNCHANGED loadVars

\* result.timings.predicted_per_second as the library can report it, in
\* ten-thousandths of a token per second: 7 and 12.3456
ReportedSpeeds == {70000, 123456}

\* parseFloat(p.toFixed(2)) (867): p, given in ten-thousandths, rounded to
\* hundredths of a token per second; tokensPerSecond holds hundredths
toFixed2(p) == (p + 50) \div 100

\* context.completion resolves with the speed the library reports (865-868,
\* then finally)
CompletionResolved(k) ==
  /\ turn[k].pc = "completing"
  /\ \E p \in ReportedSpeeds :
       tokensPerSecond' = Append(tokensPerSecond, toFixed2(p))
  /\ Finally(k)
  /\ UNCHANGED <<context, conversation, userInput, alert, completions>>
  /\ UNCHANGED pipeVars
  /\ UNCHANGED applied
  /\ UNCHANGED stopCalls
  /\ UNCHANGED loadVars

\* context.completion rejects (869-872, then finally)
CompletionRejected(k) ==
  /\ turn[k].pc = "completing"
  /\ alert' = "Error During Inference"
  /\ Finally(k)
  /\ UNCHANGED <<context, conversation, userInput, tokensPerSecond, completions>>
  /\ UNCHANGED pipeVars
  /\ UNCHANGED applied
  /\ UNCHANGED stopCalls
  /\ UNCHANGED loadVars

\* the Stop button, shown on the conversation page while isGenerating
\* (1059-1065), is pressed: stopGeneration up to the await of
\* context.stopCompletion (587-589); without a context the call throws and
\* is only logged (605-607)
stopGeneration ==
  /\ currentPage = "conversation"
  /\ isGenerating
  /\ stopCalls < MaxStops
  /\ stopCalls' = IF context = "null" THEN stopCalls ELSE stopCalls + 1
  /\ UNCHANGED <<context, conversation, userInput, imageUrl, isLoading,
                 isGenerating, tokensPerSecond, alert, turn, completions>>
  /\ UNCHANGED pipeVars
  /\ UNCHANGED applied
  /\ UNCHANGED loadVars

\* a call of context.stopCompletion settles (590-608): resolved, both flags
\* are cleared and the marker is put after the last message when the
\* assistant wrote it; a rejection is only logged
StopSettled ==
  /\ stopCalls > 0
  /\ stopCalls' = stopCalls - 1
  /\ \/ /\ isGenerating' = FALSE
        /\ isLoading' = FALSE
        /\ conversation' =
             IF conversation[Len(conversation)].role = "assistant"
             THEN [conversation EXCEPT ![Len(conversation)].text =
                     Append(@, "stopped")]
             ELSE conversation
     \/ UNCHANGED <<isGenerating, isLoading, conversation>>
  /\ UNCHANGED <<context, userInput, imageUrl, tokensPerSecond, alert, turn,
                 completions>>
  /\ UNCHANGED pipeVars
  /\ UNCHANGED applied
  /\ UNCHANGED loadVars

\* the conversation page with a model loaded, or not
InitChat ==
  /\ InitPipe(ChatSamples)
  /\ InitApp
  /\ context \in {"null", "ctx"}
  /\ currentPage = "conversation"
  /\ availableGGUFs = <<<<"model", ".", "gguf">>>>

\* one chat turn, and the image pipeline run it causes for a reference
\* without a format hint
NextChat ==
  \/ TypeMessage(TurnTexts)
  \/ TypeImageUrl(ChatRefs)
  \/ handleSendMessage(1)
  \/ SendAfterMedia(1)
  \/ MultimodalEnabledSettled(1)
  \/ MultimodalSupportSettled(1)
  \/ FormattedChatSettled(1)
  \/ TokenCallback(1, ChatTokens)
  \/ CompletionResolved(1)
  \/ CompletionRejected(1)
  \/ \E idx \in DOMAIN conversation : toggleThought(idx)
  \/ \E i \in InvIds : PlainStep(i, ChatOutcomes, ChatSamples)

SpecChat == InitChat /\ [][NextChat]_vars

\* -------------------------------------------------------- model loading

\* loadModel up to its first await (611-620), run in a render whose `context`
\* is closureContext; the trace starts with what the context state then held
loadModel(l, via, closureContext) ==
  LET entered == IF context # "null" THEN "loadModel:present" ELSE "loadModel:absent"
  IN  IF closureContext # "null"
      THEN [loads[l] EXCEPT !.pc = "releaseAllLlama", !.via = via,
                            !.trace = <<entered>>]
      ELSE [loads[l] EXCEPT !.pc = "initLlama", !.via = via,
                            !.trace = <<entered, "initLlama">>]

\* no confirmation dialog is open
NoDialog == \A l \in LoadIds : loads[l].pc # "confirm"

\* a downloaded model is pressed on the selection page (925-929)
PressDownloadedModel(l) ==
  /\ currentPage = "modelSelection" /\ ~isDownloading /\ NoDialog
  /\ availableGGUFs # <<>>
  /\ loads[l].pc = "idle"
  /\ loads' = [loads EXCEPT ![l] = loadModel(l, "button", context)]
  /\ currentPage' = "conversation"
  /\ UNCHANGED isDownloading
  /\ UNCHANGED chatVars
  /\ UNCHANGED pipeVars
  /\ UNCHANGED applied
  /\ UNCHANGED fetchVars

\* the back button of the conversation page (106-113); releaseAllLlama() of
\* 108 is called without await and its promise is dropped: it sets no state of
\* the component, and loads in flight are neither cancelled nor waited for
handleBackToModelSelection ==
  /\ currentPage = "conversation" /\ ~isDownloading
  /\ context' = "null"
  /\ conversation' = INITIAL_CONVERSATION
  /\ loads' = SharedWith(0)
  /\ tokensPerSecond' = <<>>
  /\ currentPage' = "modelSelection"
  /\ UNCHANGED isDownloading
  /\ UNCHANGED <<userInput, imageUrl, isLoading, isGenerating, alert, turn,
                 completions>>
  /\ UNCHANGED pipeVars
  /\ UNCHANGED applied
  /\ UNCHANGED stopCalls
  /\ UNCHANGED fetchVars

\* a model that is not downloaded is pressed: the dialog of 86-98 opens, its
\* buttons bound to the handlers of the current render
handleGGUFSelection(l) ==
  /\ currentPage = "modelSelection" /\ ~isDownloading /\ NoDialog
  /\ availableGGUFs # <<>>
  /\ loads[l].pc = "idle"
  /\ loads' = [loads EXCEPT ![l].pc = "confirm", ![l].context = context]
  /\ alert' = "Confirm Download"
  /\ UNCHANGED <<currentPage, isDownloading>>
  /\ UNCHANGED <<context, conversation, userInput, imageUrl, isLoading,
                 isGenerating, tokensPerSecond, turn, completions>>
  /\ UNCHANGED pipeVars
  /\ UNCHANGED applied
  /\ UNCHANGED stopCalls
  /\ UNCHANGED fetchVars

\* "No" is pressed (92)
DeclineDownload(l) ==
  /\ loads[l].pc = "confirm"
  /\ loads' = [loads EXCEPT ![l].pc = "done"]
  /\ UNCHANGED <<currentPage, isDownloading>>
  /\ UNCHANGED chatVars
  /\ UNCHANGED pipeVars
  /\ UNCHANGED applied
  /\ UNCHANGED fetchVars

\* "Yes" is pressed: handleDownloadAndNavigate and handleDownloadModel up to
\* the await of checkFileExists (101-102, 192-200)
handleDownloadModel(l) ==
  /\ loads[l].pc = "confirm"
  /\ isDownloading' = TRUE
  /\ loads' = [loads EXCEPT ![l].pc = "checkFileExists"]
  /\ UNCHANGED currentPage
  /\ UNCHANGED chatVars
  /\ UNCHANGED pipeVars
  /\ UNCHANGED applied
  /\ UNCHANGED fetchVars

\* checkFileExists resolves: the file is loaded, or downloaded first (200-215)
FileChecked(l) ==
  /\ loads[l].pc = "checkFileExists"
  /\ \/ loads' = [loads EXCEPT ![l] = loadModel(l, "existing", loads[l].context)]
     \/ loads' = [loads EXCEPT ![l].pc = "downloadModel"]
  /\ UNCHANGED <<currentPage, isDownloading>>
  /\ UNCHANGED chatVars
  /\ UNCHANGED pipeVars
  /\ UNCHANGED applied
  /\ UNCHANGED fetchVars

\* downloadModel settles (215-228); after a failure handleDownloadAndNavigate
\* still shows the conversation page (103)
DownloadSettled(l) ==
  /\ loads[l].pc = "downloadModel"
  /\ \/ /\ alert' = "Success"
        /\ loads' = [loads EXCEPT ![l] = loadModel(l, "downloaded", loads[l].context)]
        /\ UNCHANGED <<currentPage, isDownloading>>
     \/ /\ alert' = "Error"
        /\ loads' = [loads EXCEPT ![l].pc = "done"]
        /\ isDownloading' = FALSE
        /\ currentPage' = "conversation"
  /\ UNCHANGED <<context, conversation, userInput, imageUrl, isLoading,
                 isGenerating, tokensPerSecond, turn, completions>>
  /\ UNCHANGED pipeVars
  /\ UNCHANGED applied
  /\ UNCHANGED stopCalls
  /\ UNCHANGED fetchVars

\* a variant of LoadReturned that downloads after every load of an existing
\* file, successful or not
LoadReturnedDownloadsAnyway(l, success, title) ==
  IF loads[l].via = "button" THEN
    /\ loads' = [loads EXCEPT ![l].pc = "done"]
    /\ alert' = title
    /\ UNCHANGED <<currentPage, isDownloading>>
  ELSE IF loads[l].via = "existing" THEN
    /\ loads' = [loads EXCEPT ![l].pc = "downloadModel"]
    /\ alert' = title
    /\ UNCHANGED <<currentPage, isDownloading>>
  ELSE
    /\ loads' = [loads EXCEPT ![l].pc = "done"]
    /\ alert' = IF loads[l].via = "existing" THEN "Info" ELSE title
    /\ isDownloading' = FALSE
    /\ currentPage' = "conversation"

\* loadModel has returned to its caller: the button ignores the result,
\* handleDownloadModel downloads when an existing file failed to load
\* (201-209, 221-228), and handleDownloadAndNavigate changes the page (103)
LoadReturned(l, success, title) ==
  IF loads[l].via = "button" THEN
    /\ loads' = [loads EXCEPT ![l].pc = "done"]
    /\ alert' = title
    /\ UNCHANGED <<currentPage, isDownloading>>
  ELSE IF loads[l].via = "existing" /\ ~success THEN
    /\ loads' = [loads EXCEPT ![l].pc = "downloadModel"]
    /\ alert' = title
    /\ UNCHANGED <<currentPage, isDownloading>>
  ELSE
    /\ loads' = [loads EXCEPT ![l].pc = "done"]
    /\ alert' = IF loads[l].via = "existing" THEN "Info" ELSE title
    /\ isDownloading' = FALSE
    /\ currentPage' = "conversation"

\* releaseAllLlama settles (616-620, 683-689); the conversation becomes the
\* INITIAL_CONVERSATION array of the render loadModel was called in.  Only
\* handleDownloadModel calls loadModel a second time in the same render, after
\* the load of an existing file has failed (201, 221)
ReleaseSettled(l) ==
  /\ loads[l].pc = "releaseAllLlama"
  /\ \/ /\ context' = "null"
        /\ conversation' = loads[l].initial
        /\ loads' = [SharedWith(IF loads[l].via = "existing" THEN l ELSE 0) EXCEPT
                       ![l].pc = "initLlama",
                       ![l].trace = @ \o <<"released", "setContext:null",
                                           "setConversation:initial",
                                           "initLlama">>]
        /\ UNCHANGED <<alert, currentPage, isDownloading>>
     \/ /\ LoadReturned(l, FALSE, "Error Loading Model")
        /\ UNCHANGED <<context, conversation>>
  /\ UNCHANGED <<userInput, imageUrl, isLoading, isGenerating, tokensPerSecond,
                 turn, completions>>
  /\ UNCHANGED pipeVars
  /\ UNCHANGED applied
  /\ UNCHANGED stopCalls
  /\ UNCHANGED fetchVars

\* initLlama settles (620-626, 683-689)
InitLlamaSettled(l) ==
  /\ loads[l].pc = "initLlama"
  /\ \/ /\ context' = "ctx"
        /\ loads' = [loads EXCEPT ![l].pc = "readDir",
                                  ![l].trace = Append(@, "setContext:ctx")]
        /\ UNCHANGED <<alert, currentPage, isDownloading>>
     \/ /\ LoadReturned(l, FALSE, "Error Loading Model")
        /\ UNCHANGED context
  /\ UNCHANGED <<conversation, userInput, imageUrl, isLoading, isGenerating,
                 tokensPerSecond, turn, completions>>
  /\ UNCHANGED pipeVars
  /\ UNCHANGED applied
  /\ UNCHANGED stopCalls
  /\ UNCHANGED fetchVars

\* the awaits of the projector set-up of loadModel (628, 636-640, 647, 657,
\* 661, 664-668)
MultimodalStage ==
  {"readDir", "axios", "exists", "downloadFile", "initMultimodal",
   "isMultimodalEnabled", "getMultimodalSupport"}

\* the projector file in the documents directory (635, 655)
MmprojPath == <<"/", "docs", "/", "mmproj", ".", "gguf">>

\* what RNFS.downloadFile can write there
MmprojContents == {<<1, 2, 3>>}

\* an await of the projector set-up settles: resolved, the set-up goes on
\* to one of `nexts`; rejected, or with nothing further to do, the catch
\* blocks only log (674-679) and loadModel returns true (680-682)
MultimodalStep(l, from, nexts) ==
  /\ loads[l].pc = from
  /\ \/ /\ \E n \in nexts : loads' = [loads EXCEPT ![l].pc = n]
        /\ UNCHANGED <<alert, currentPage, isDownloading>>
     \/ LoadReturned(l, TRUE, "Model Loaded")
  /\ UNCHANGED <<context, conversation, userInput, imageUrl, isLoading,
                 isGenerating, tokensPerSecond, turn, completions>>
  /\ UNCHANGED <<now, inv>>
  /\ UNCHANGED applied
  /\ UNCHANGED stopCalls
  /\ UNCHANGED fetchVars

\* RNFS.readDir of the documents directory settles (628-632, 642): a
\* projector file found there is used, else the repository is asked; the
\* repository of the selected format is always known when a model button
\* could be pressed (889-907)
ReadDirSettled(l) ==
  /\ MultimodalStep(l, "readDir",
                    IF Exists(MmprojPath) THEN {"initMultimodal"} ELSE {"axios"})
  /\ UNCHANGED fs

\* axios.get of the repository settles (647-656, 670-672): with a projector
\* among the siblings its local copy is looked for
AxiosSettled(l) ==
  /\ MultimodalStep(l, "axios", {"exists"})
  /\ UNCHANGED fs

\* RNFS.exists of the projector's destination settles (657-664)
ExistsSettled(l) ==
  /\ MultimodalStep(l, "exists",
                    IF Exists(MmprojPath) THEN {"initMultimodal"}
                    ELSE {"downloadFile"})
  /\ UNCHANGED fs

\* RNFS.downloadFile of the projector settles (661-664): resolved, the file
\* has been written, or nothing has when the server refused it; the result
\* is not looked at
DownloadFileSettled(l) ==
  /\ MultimodalStep(l, "downloadFile", {"initMultimodal"})
  /\ IF loads'[l].pc = "initMultimodal"
     THEN \/ \E c \in MmprojContents : fs' = WriteFile(fs, MmprojPath, c)
          \/ UNCHANGED fs
     ELSE UNCHANGED fs

\* llamaContext.initMultimodal settles (636-638, 664-666)
InitMultimodalSettled(l) ==
  /\ MultimodalStep(l, "initMultimodal", {"isMultimodalEnabled"})
  /\ UNCHANGED fs

\* llamaContext.isMultimodalEnabled settles (638-640, 666-668)
IsMultimodalEnabledSettled(l) ==
  /\ MultimodalStep(l, "isMultimodalEnabled", {"getMultimodalSupport"})
  /\ UNCHANGED fs

\* llamaContext.getMultimodalSupport settles, resolved or rejected: the
\* set-up is over (640-641, 668-669, 680-682)
MultimodalSettled(l) ==
  /\ MultimodalStep(l, "getMultimodalSupport", {})
  /\ UNCHANGED fs

\* a format button of the selection page is pressed: handleFormatSelection
\* and fetchAvailableGGUFs up to the await of axios.get (146-150, 122-126)
handleFormatSelection ==
  /\ currentPage = "modelSelection" /\ ~isDownloading /\ NoDialog
  /\ fetches < MaxFetches
  /\ availableGGUFs' = <<>>
  /\ isFetching' = TRUE
  /\ fetches' = fetches + 1
  /\ UNCHANGED <<currentPage, isDownloading, loads>>
  /\ UNCHANGED chatVars
  /\ UNCHANGED pipeVars
  /\ UNCHANGED applied

\* file names of a repository, and the lists of siblings the API can answer
\* with
ReadmeFile == <<"README", ".", "md">>
ModelFile  == <<"model", ".", "gguf">>
RepoSiblings == {<<>>, <<ReadmeFile>>, <<ReadmeFile, ModelFile>>}

\* file.rfilename.endsWith(".gguf") (133-135)
EndsWithGguf(name) ==
  Len(name) >= 2 /\ name[Len(name) - 1] = "." /\ name[Len(name)] = "gguf"

\* axios.get of fetchAvailableGGUFs settles (127-143): the .gguf files among
\* the siblings are listed, or the error alert is shown
fetchAvailableGGUFs ==
  /\ fetches > 0
  /\ \/ /\ \E siblings \in RepoSiblings :
             availableGGUFs' = SelectSeq(siblings, EndsWithGguf)
        /\ UNCHANGED alert
     \/ /\ alert' = "Error"
        /\ UNCHANGED availableGGUFs
  /\ isFetching' = FALSE
  /\ fetches' = fetches - 1
  /\ UNCHANGED <<currentPage, isDownloading, loads>>
  /\ UNCHANGED <<context, conversation, userInput, imageUrl, isLoading,
                 isGenerating, tokensPerSecond, turn, completions>>
  /\ UNCHANGED pipeVars
  /\ UNCHANGED applied
  /\ UNCHANGED stopCalls

\* the selection page as the app starts, before any file is there: no
\* model loaded, no list fetched
InitLoad ==
  /\ applied = NotApplied
  /\ now = 0
  /\ fs = <<>>
  /\ inv = [i \in InvIds |-> IdleInv]
  /\ InitApp
  /\ availableGGUFs = <<>>
  /\ context = "null"
  /\ currentPage = "modelSelection"

\* the selection page and the loads started from it; a press starts the
\* first load not yet used
NextLoad ==
  \/ handleFormatSelection
  \/ fetchAvailableGGUFs
  \/ handleBackToModelSelection
  \/ \E l \in LoadIds :
       /\ \A j \in LoadIds : j < l => loads[j].pc # "idle"
       /\ PressDownloadedModel(l) \/ handleGGUFSelection(l)
  \/ \E l \in LoadIds :
       \/ DeclineDownload(l)
       \/ handleDownloadModel(l)
       \/ FileChecked(l)
       \/ DownloadSettled(l)
       \/ ReleaseSettled(l)
       \/ InitLlamaSettled(l)
       \/ ReadDirSettled(l)
       \/ AxiosSettled(l)
       \/ ExistsSettled(l)
       \/ DownloadFileSettled(l)
       \/ InitMultimodalSettled(l)
       \/ IsMultimodalEnabledSettled(l)
       \/ MultimodalSettled(l)

SpecLoad == InitLoad /\ [][NextLoad]_vars

\* --------------------------------------------------- concurrent callers

\* two callers of ensureBmpForMedia whose invocations interleave
NextConc ==
  \/ Tick
  \/ \E i \in TopLevel : Call(i, ConcRefs, {Omitted})
  \/ \E i \in InvIds : Step(i, ConcOutcomes, ConcSamples)

InitConc ==
  /\ InitPipe(ConcSamples)
  /\ InitApp
  /\ context = "null"
  /\ currentPage = "modelSelection"
  /\ availableGGUFs = <<>>

SpecConc == InitConc /\ [][NextConc]_vars

\* two callers within one millisecond, whose references differ in suffix
\* and query string
PairRefs == {RefAbs, RefHttp, RefHint}

NextPair ==
  \/ \E i \in TopLevel : Call(i, PairRefs, {Omitted})
  \/ \E i \in InvIds : Step(i, ConcOutcomes, ConcSamples)

SpecPair == InitConc /\ [][NextPair]_vars

\* decoder outcomes that differ in control flow: a throw, a frame, an empty
\* frame, no frame at all
FairOutcomes ==
  { DecodeThrows, Decoded(1, 1, <<200, 0, 0, 255>>), Decoded(0, 0, <<>>),
    Decoded(2, 1, NullBytes) }

\* one call with the default maxSize, every reference and every file content
NextFair ==
  \/ Tick
  \/ Call(1, Refs, {Omitted})
  \/ \E i \in InvIds : Step(i, FairOutcomes, Samples)

\* one call whose reference carries a format hint, with the default maxSize
HintRefs == {RefLocalQ, RefHint, RefHint2}

NextWebp ==
  \/ Tick
  \/ Call(1, HintRefs, {Omitted})
  \/ \E i \in InvIds : Step(i, FairOutcomes, Samples)

SpecWebp == Init /\ [][NextWebp]_vars

\* the awaits of an invocation settle: every fetch, read and write returns
FairSpec ==
  /\ Init /\ [][NextFair]_vars
  /\ \A i \in InvIds : WF_vars(Step(i, FairOutcomes, Samples))

\* the conversation page with a model loaded, or not, and nothing typed
InitTurns ==
  /\ InitPipe({SampleBmp})
  /\ InitApp
  /\ context \in {"null", "ctx"}
  /\ currentPage = "conversation"
  /\ availableGGUFs = <<<<"model", ".", "gguf">>>>

\* one chat turn with the Stop button; its image reference names a local
\* file, which is missing or holds a BMP, so that reading it is the only
\* await of the image pipeline
NextTurn ==
  \/ TypeMessage(TurnTexts)
  \/ TypeImageUrl(TurnRefs)
  \/ handleSendMessage(1)
  \/ SendAfterMedia(1)
  \/ MultimodalEnabledSettled(1)
  \/ MultimodalSupportSettled(1)
  \/ FormattedChatSettled(1)
  \/ TokenCallback(1, ChatTokens)
  \/ CompletionResolved(1)
  \/ CompletionRejected(1)
  \/ \E idx \in DOMAIN conversation : toggleThought(idx)
  \/ stopGeneration
  \/ StopSettled
  \/ \E i \in InvIds : ReadDone(i, FairOutcomes)

\* every await of the turn settles: the image pipeline's, the completion's
\* and stopCompletion's
FairChat ==
  /\ InitTurns /\ [][NextTurn]_vars
  /\ \A i \in InvIds : WF_vars(ReadDone(i, FairOutcomes))
  /\ WF_vars(SendAfterMedia(1))
  /\ WF_vars(MultimodalEnabledSettled(1))
  /\ WF_vars(MultimodalSupportSettled(1))
  /\ WF_vars(FormattedChatSettled(1))
  /\ WF_vars(CompletionResolved(1) \/ CompletionRejected(1))
  /\ WF_vars(StopSettled)

\* the buttons of the conversation page (1058-1075, 1091) and the awaits of
\* the turns they start; a press starts the first turn not yet used
NextTurns ==
  \/ TypeMessage(TurnTexts)
  \/ \E k \in TurnIds :
       /\ currentPage = "conversation"
       /\ \A j \in TurnIds : j < k => turn[j].pc # "idle"
       /\ handleSendMessage(k)
  \/ \E k \in TurnIds : MultimodalEnabledSettled(k)
  \/ \E k \in TurnIds : MultimodalSupportSettled(k)
  \/ \E k \in TurnIds : FormattedChatSettled(k)
  \/ \E k \in TurnIds : TokenCallback(k, PlainTokens)
  \/ \E k \in TurnIds : CompletionResolved(k)
  \/ \E k \in TurnIds : CompletionRejected(k)
  \/ stopGeneration
  \/ StopSettled
  \/ handleBackToModelSelection

\* text-only chat turns with the Stop and back buttons
SpecTurns == InitTurns /\ [][NextTurns]_vars

\* one chat turn without an image file, with every token the completion can
\* stream, the thought buttons and the Stop button
NextStream ==
  \/ TypeMessage(Texts)
  \/ TypeImageUrl(StreamRefs)
  \/ handleSendMessage(1)
  \/ SendAfterMedia(1)
  \/ MultimodalEnabledSettled(1)
  \/ MultimodalSupportSettled(1)
  \/ FormattedChatSettled(1)
  \/ TokenCallback(1, Tokens)
  \/ CompletionResolved(1)
  \/ CompletionRejected(1)
  \/ \E idx \in DOMAIN conversation : toggleThought(idx)
  \/ stopGeneration
  \/ StopSettled

SpecStream == InitTurns /\ [][NextStream]_vars

\* ---------------------------------------------- the helpers on their own

\* largest width and height handed to writeBmp24 and to the size check
MaxDim == 4
\* bytes that follow a container signature
MaxTail == 2

\* n bytes, no two neighbours alike
Pattern(n) == [j \in 1..n |-> (j * 37 + 11) % 256]

\* the container signatures; bytes 4..7 of a RIFF header are its length
SigBmp  == <<66, 77>>
SigPng  == <<137, 80, 78, 71, 13, 10, 26, 10>>
SigJpeg == <<255, 216, 255>>
SigWebp == <<82, 73, 70, 70, 36, 0, 0, 0, 87, 69, 66, 80>>

\* every prefix of a signature followed by a tail, and the same with one byte
\* of the signature changed
NearSignature(sig) ==
  LET whole == sig \o Pattern(MaxTail)
  IN  {SubSeq(whole, 1, n) : n \in 0..Len(whole)}
      \cup {[whole EXCEPT ![k] = (@ + 1) % 256] : k \in 1..Len(sig)}

SniffInputs ==
  Samples \cup NearSignature(SigBmp) \cup NearSignature(SigPng)
          \cup NearSignature(SigJpeg) \cup NearSignature(SigWebp)

\* pixel buffers for a width x height image: exact, one byte short, one pixel
\* long, empty
BuffersFor(width, height) ==
  {Pattern(width * height * 4), Pattern(width * height * 4 - 1),
   Pattern(width * height * 4 + 4), <<>>}

\* images beyond MaxDim for the size check: width, height, options.maxSize
SizeCases ==
  {<<300, 200, 1024>>, <<1024, 1, Omitted>>, <<1025, 1, Omitted>>,
   <<1, 1025, Omitted>>, <<1122, 2, Omitted>>, <<100, 50, 50>>, <<22, 7, 15>>,
   <<23, 23, 13>>}

\* colours given every alpha, and two-pixel buffers whose pixels differ in alpha
PixelColours ==
  {<<10, 20, 30>>, <<0, 127, 255>>, <<128, 1, 254>>, <<255, 255, 255>>,
   <<0, 0, 0>>}

CompositeInputs ==
  {c \o <<a>> : c \in PixelColours, a \in 0..255}
  \cup {c \o <<a>> \o d \o <<b>> :
          c \in {<<10, 20, 30>>}, d \in {<<200, 100, 50>>},
          a \in {0, 128, 255}, b \in {0, 77, 255}}

HelperInputs ==
  {[NotApplied EXCEPT !.fn = "detectMimeFromBytes", !.bytes = b] : b \in SniffInputs}
  \cup {[NotApplied EXCEPT !.fn = "writeBmp24", !.bytes = b, !.width = wh[1],
                           !.height = wh[2]] :
          b \in UNION {BuffersFor(d[1], d[2]) : d \in (1..MaxDim) \X (1..MaxDim)},
          wh \in (1..MaxDim) \X (1..MaxDim)}
  \cup {[NotApplied EXCEPT !.fn = "sizeCheck", !.bytes = Pattern(d[1] * d[2] * 4),
                           !.width = d[1], !.height = d[2], !.maxSize = d[3]] :
          d \in (1..MaxDim) \X (1..MaxDim) \X ({Omitted} \cup 1..MaxDim)}
  \cup {[NotApplied EXCEPT !.fn = "sizeCheck", !.bytes = Pattern(8),
                           !.width = d[1], !.height = d[2], !.maxSize = d[3]] :
          d \in SizeCases}
  \cup {[NotApplied EXCEPT !.fn = "compositeOnWhite", !.bytes = b,
                           !.width = Len(b) \div 4, !.height = 1] :
          b \in CompositeInputs}
  \cup {[NotApplied EXCEPT !.fn = "resizeNearestRGBA",
                           !.bytes = Pattern(d[1] * d[2] * 4),
                           !.width = d[1], !.height = d[2],
                           !.dstW = d[3], !.dstH = d[4]] :
          d \in (1..MaxDim) \X (1..MaxDim) \X (1..MaxDim) \X (1..MaxDim)}

InitHelpers ==
  /\ applied \in HelperInputs
  /\ now = 0
  /\ fs = <<>>
  /\ inv = [i \in InvIds |-> IdleInv]
  /\ InitApp
  /\ context = "null"
  /\ currentPage = "modelSelection"
  /\ availableGGUFs = <<>>

Returned(value) ==
  /\ applied' = [applied EXCEPT !.done = TRUE, !.out = value]
  /\ UNCHANGED pipeVars
  /\ UNCHANGED chatVars
  /\ UNCHANGED loadVars

ApplyDetectMime ==
  /\ applied.fn = "detectMimeFromBytes" /\ ~applied.done
  /\ Returned(detectMimeFromBytes(applied.bytes))

ApplyWriteBmp24 ==
  /\ applied.fn = "writeBmp24" /\ ~applied.done
  /\ Returned(writeBmp24(applied.bytes, applied.width, applied.height))

ApplySizeCheck ==
  /\ applied.fn = "sizeCheck" /\ ~applied.done
  /\ Returned(sizeCheck(applied.width, applied.height, applied.bytes,
                        maxSizeOf(applied.maxSize)))

ApplyComposite ==
  /\ applied.fn = "compositeOnWhite" /\ ~applied.done
  /\ Returned(compositeOnWhite(applied.bytes))

ApplyResize ==
  /\ applied.fn = "resizeNearestRGBA" /\ ~applied.done
  /\ Returned(resizeNearestRGBA(applied.bytes, applied.width, applied.height,
                                applied.dstW, applied.dstH))

NextHelpers ==
  \/ ApplyDetectMime
  \/ ApplyWriteBmp24
  \/ ApplySizeCheck
  \/ ApplyComposite
  \/ ApplyResize

SpecHelpers == InitHelpers /\ [][NextHelpers]_vars

\* ------------------------------------------------------------- the claims

\* event e is in the trace of invocation i
Has(i, e) == \E n \in 1..Len(inv[i].trace) : inv[i].trace[n] = e

\* invocation i has settled
Done(i) == inv[i].pc = "done"

\* C1: null is returned only when resolution, the read, the write or the stat
\* failed (or the recursive call returned null): a decode failure is absorbed.
C1_DecodeFailureAbsorbed ==
  \A i \in InvIds :
    (Done(i) /\ inv[i].result = Null) =>
      \/ Has(i, "resolve:null") \/ Has(i, "download:rejected")
      \/ Has(i, "read:throw") \/ Has(i, "write:throw") \/ Has(i, "stat:throw")
      \/ Has(i, "recurse")

\* C2: ensureBmpForMedia never rejects: whatever is thrown inside it lands in
\* the outer catch, and the promise resolves to null.
C2_NeverRejects ==
  \A i \in InvIds :
    /\ inv[i].pc # "rejected"
    /\ Has(i, "catch:outer") => (Done(i) /\ inv[i].result = Null)

C2_Witness ==
  \E i \in InvIds : Has(i, "jpeg:throw") /\ Has(i, "catch:outer") /\ Done(i)

\* the state part of C3: a recursive call is one level deep, its reference
\* carries no hint, and it never rewrites, fetches an alternate or recurses
C3_DepthOne ==
  \A i \in InvIds :
    inv[i].pc # "idle" =>
      /\ inv[i].depth <= 1
      /\ inv[i].depth = 1 =>
           /\ ~IncludesWebpHint(inv[i].uri)
           /\ ~Has(i, "alt:resolve") /\ ~Has(i, "recurse")
           /\ inv[i].pc \notin {"altDownloading", "altReading", "awaitRecursive"}
           /\ (Has(i, "image/webp") => Has(i, "placeholder"))

\* C3: every invocation terminates when its awaits settle, and the WebP retry
\* recurses at most once.
C3_TerminatesRecursesOnce ==
  /\ []C3_DepthOne
  /\ <>[](\A i \in InvIds : inv[i].pc \in {"idle", "done"})

C3_Witness ==
  \E i \in InvIds :
    /\ inv[i].depth = 1 /\ Done(i)
    /\ Has(i, "image/webp") /\ Has(i, "placeholder")
    /\ inv[inv[i].parent].pc = "done"

\* the 58 bytes of a 1x1 opaque white 24-bit BMP
WhitePixelBmp ==
  <<66, 77, 58, 0, 0, 0, 0, 0, 0, 0, 54, 0, 0, 0,
    40, 0, 0, 0, 1, 0, 0, 0, 1, 0, 0, 0, 1, 0, 24, 0, 0, 0, 0, 0,
    4, 0, 0, 0, 19, 11, 0, 0, 19, 11, 0, 0, 0, 0, 0, 0, 0, 0, 0, 0,
    255, 255, 255, 0>>

\* bytes classified WEBP, reference without a hint
WebpNoHint(i) == Has(i, "image/webp") /\ ~IncludesWebpHint(inv[i].uri)

\* C4 (as amended): a WEBP source without a hint causes no alternate fetch and
\* encodes the 58-byte 1x1 white BMP; the path of the written file is returned
\* unless the write or the stat fails, and then null is.
C4_WebpNoHintWhitePixel ==
  \A i \in InvIds :
    WebpNoHint(i) =>
      /\ ~Has(i, "alt:resolve")
      /\ inv[i].pc \in {"writing", "statting", "done"}
      /\ inv[i].width = 1 /\ inv[i].height = 1
      /\ inv[i].bmpBytes = WhitePixelBmp
      /\ inv[i].pc = "statting" => fs[inv[i].outPath] = WhitePixelBmp
      /\ Done(i) =>
           IF Has(i, "write:ok") /\ Has(i, "stat:ok")
           THEN /\ inv[i].result = WithFileScheme(inv[i].outPath)
                /\ fs[inv[i].outPath] = WhitePixelBmp
           ELSE /\ inv[i].result = Null
                /\ Has(i, "write:throw") \/ Has(i, "stat:throw")

C4_Witness ==
  \E i \in InvIds : WebpNoHint(i) /\ Done(i) /\ inv[i].result # Null

\* C4 as stated: such a call always returns a path.
C4_AlwaysReturnsPath ==
  \A i \in InvIds : (WebpNoHint(i) /\ Done(i)) => inv[i].result # Null

\* the top-level call invocation i belongs to
RECURSIVE Root(_)
Root(i) == IF inv[i].parent = 0 THEN i ELSE Root(inv[i].parent)

\* the cache files invocation i downloads to or writes
CachePathsOf(i) == {inv[i].dest, inv[i].altDest, inv[i].outPath} \ {Null}

\* C5: calls with different references never use the same cache file, and the
\* file at a returned path holds the bytes the returning invocation encoded.
C5_NoSharedCachePath ==
  /\ \A i, j \in InvIds :
       (/\ inv[i].pc # "idle" /\ inv[j].pc # "idle"
        /\ Root(i) # Root(j)
        /\ inv[Root(i)].uri # inv[Root(j)].uri)
       => CachePathsOf(i) \cap CachePathsOf(j) = {}
  /\ \A i \in InvIds :
       (Done(i) /\ Has(i, "stat:ok")) => fs[inv[i].outPath] = inv[i].bmpBytes

\* C6 (as amended): every non-failure result is "file://" followed by the local
\* path: the resolved source in the pass-through branch, the written cache
\* file in the encode-and-write branch.
C6_ResultHasFileScheme ==
  \A i \in InvIds :
    (Done(i) /\ inv[i].result # Null) =>
      /\ StartsWith(inv[i].result, "file://")
      /\ Has(i, "passthrough") => inv[i].result = WithFileScheme(Tail(inv[i].local))
      /\ Has(i, "stat:ok") => inv[i].result = <<"file://">> \o inv[i].outPath

C6_Witness ==
  \E i \in InvIds :
    Done(i) /\ Has(i, "passthrough") /\ inv[i].result = WithFileScheme(inv[i].dest)

\* C6 as stated: no result begins with "file://".
C6_ResultIsPlainPath ==
  \A i \in InvIds :
    (Done(i) /\ inv[i].result # Null) => ~StartsWith(inv[i].result, "file://")

\* C7: an image attachment passed to context.completion is a plain path with no
\* "file://", sits on the latest user message only, and is the path
\* ensureBmpForMedia produced for the turn's image reference.
C7_AttachmentIsPlainPath ==
  \A n \in 1..Len(completions) :
    LET ms == completions[n].messages
        k  == completions[n].turn
    IN  \A idx \in 1..Len(ms) :
          ms[idx].url # Null =>
            /\ ~StartsWith(ms[idx].url, "file://")
            /\ idx = Len(ms) /\ ms[idx].role = "user"
            /\ inv[k].uri = turn[k].attachedImageUrl
            /\ ms[idx].url = StripFileScheme(inv[k].result)

\* write:ok comes before stat:ok in the trace of invocation i
WroteThenStatted(i) ==
  \E a, b \in 1..Len(inv[i].trace) :
    a < b /\ inv[i].trace[a] = "write:ok" /\ inv[i].trace[b] = "stat:ok"

\* C8: the path of a written file is returned only after the write of all the
\* BMP bytes and a later stat both succeeded; a failed write or stat gives null.
C8_PathOnlyAfterWriteAndStat ==
  \A i \in InvIds :
    /\ (Done(i) /\ inv[i].result # Null /\ ~Has(i, "passthrough") /\ ~Has(i, "recurse"))
         => /\ WroteThenStatted(i)
            /\ inv[i].result = WithFileScheme(inv[i].outPath)
            /\ Exists(inv[i].outPath)
            /\ fs[inv[i].outPath] = inv[i].bmpBytes
    /\ (Has(i, "write:throw") \/ Has(i, "stat:throw"))
         => (Done(i) /\ inv[i].result = Null)
    /\ (Done(i) /\ Has(i, "recurse"))
         => \E j \in InvIds : inv[j].parent = i /\ Done(j) /\ inv[i].result = inv[j].result

C8_Witness ==
  \E i \in InvIds : Done(i) /\ WroteThenStatted(i) /\ inv[i].result # Null

\* the reference of turn k could not be turned into local bytes
Unresolved(k) ==
  /\ turn[k].attachedImageUrl # <<>>
  /\ Done(k)
  /\ Has(k, "resolve:null") \/ Has(k, "download:rejected") \/ Has(k, "read:throw")

\* context.completion was called for turn k with no image part in any message
\* and the user's message last
TextOnlyCompletion(k) ==
  \E n \in 1..Len(completions) :
    LET ms == completions[n].messages
    IN  /\ completions[n].turn = k
        /\ \A idx \in 1..Len(ms) : ms[idx].url = Null
        /\ ms[Len(ms)].role = "user"
        /\ ms[Len(ms)].text = turn[k].userText

\* C9: when the reference cannot be turned into local bytes, ensureBmpForMedia
\* returns null and the turn still calls the completion, text-only.
C9_NoMediaStillCompletes ==
  \A k \in TurnIds :
    /\ Unresolved(k) => inv[k].result = Null
    /\ ((Unresolved(k) \/ turn[k].attachedImageUrl = <<>>)
        /\ turn[k].pc \in {"completing", "finished"})
         => TextOnlyCompletion(k)

C9_Witness ==
  \E k \in TurnIds :
    Unresolved(k) /\ Has(k, "read:throw") /\ turn[k].pc = "finished"
    /\ TextOnlyCompletion(k)

\* C10: a content-provider URI is resolved to a local file, not to the failure
\* signal.
C10_ContentUriResolved ==
  \A i \in InvIds :
    (inv[i].pc # "idle" /\ StartsWith(inv[i].uri, "content://"))
      => ~Has(i, "resolve:null")


\* the events of decoding, compositing, resizing, encoding and writing
ProcessingEvents ==
  {"png:ok", "png:throw", "jpeg:ok", "jpeg:throw", "composite", "placeholder",
   "placeholder:nodata", "resize", "encode", "write:ok", "write:throw",
   "stat:ok", "stat:throw"}

\* invocation i encoded a BMP, wrote it and returns the written file
EncodedAndWritten(i) ==
  /\ Has(i, "encode") /\ Has(i, "write:ok")
  /\ inv[i].result = WithFileScheme(inv[i].outPath)

\* C11 (as amended): an invocation whose bytes classify as BMP returns the
\* resolved source path unchanged and neither decodes, composites, resizes,
\* encodes nor writes; an invocation of any other class that returns a path
\* encoded and wrote it, unless it is a WEBP source that retried with the
\* alternate: that one hands on the path its recursive invocation returned.
C11_BmpPassThroughOnly ==
  \A i \in InvIds :
    /\ inv[i].mime = "image/bmp" =>
         /\ Done(i) /\ inv[i].result = inv[i].local
         /\ \A e \in ProcessingEvents : ~Has(i, e)
         /\ inv[i].bmpBytes = <<>> /\ inv[i].outPath = Null
    /\ (Done(i) /\ inv[i].result # Null /\ inv[i].mime # "image/bmp") =>
         \/ EncodedAndWritten(i)
         \/ /\ inv[i].mime = "image/webp" /\ Has(i, "recurse")
            /\ \E j \in InvIds : /\ inv[j].parent = i /\ Done(j)
                                 /\ inv[j].result = inv[i].result

C11_Witness ==
  \E i \in InvIds :
    /\ inv[i].mime = "image/bmp" /\ Done(i) /\ inv[i].dest # Null
    /\ inv[i].result = WithFileScheme(inv[i].dest)
    /\ fs[inv[i].dest] = inv[i].bytes
    /\ ~Has(i, "encode")

\* C11 as stated: BMP bytes pass through, and an invocation of any other
\* class that returns a path encoded and wrote it.
C11_OtherBranchesEncode ==
  \A i \in InvIds :
    /\ inv[i].mime = "image/bmp" =>
         /\ Done(i) /\ inv[i].result = inv[i].local
         /\ \A e \in ProcessingEvents : ~Has(i, e)
         /\ inv[i].bmpBytes = <<>> /\ inv[i].outPath = Null
    /\ (Done(i) /\ inv[i].result # Null /\ inv[i].mime # "image/bmp") =>
         EncodedAndWritten(i)

\* the signature table of the container formats
SignatureTable(b) ==
  IF Len(b) < 2 THEN "application/octet-stream"
  ELSE IF SubSeq(b, 1, 2) = <<66, 77>> THEN "image/bmp"
  ELSE IF Len(b) >= 8 /\ SubSeq(b, 1, 8) = <<137, 80, 78, 71, 13, 10, 26, 10>>
    THEN "image/png"
  ELSE IF Len(b) >= 3 /\ SubSeq(b, 1, 3) = <<255, 216, 255>> THEN "image/jpeg"
  ELSE IF Len(b) >= 12 /\ SubSeq(b, 1, 4) = <<82, 73, 70, 70>>
                       /\ SubSeq(b, 9, 12) = <<87, 69, 66, 80>>
    THEN "image/webp"
  ELSE "application/octet-stream"

Classified == applied.fn = "detectMimeFromBytes" /\ applied.done

\* C12: detectMimeFromBytes gives, for every byte sequence, the class of the
\* signature table; a sequence shorter than a signature never matches it.
C12_ClassifyIsSignatureTable ==
  Classified => applied.out = SignatureTable(applied.bytes)

C12_Witness ==
  /\ Classified
  /\ applied.bytes = SubSeq(SigPng, 1, 7)
  /\ applied.out = "application/octet-stream"

\* C13: two invocations that read identical bytes are classified identically,
\* whatever their references are.
C13_ClassDependsOnBytesOnly ==
  \A i, j \in InvIds :
    (inv[i].mime # "" /\ inv[j].mime # "" /\ inv[i].bytes = inv[j].bytes)
      => inv[i].mime = inv[j].mime

C13_Witness ==
  \E i, j \in InvIds :
    /\ inv[i].mime = "image/webp" /\ inv[j].mime = "image/webp"
    /\ inv[i].bytes = inv[j].bytes
    /\ ExtOf(CleanOf(inv[i].uri)) = "png"
    /\ ExtOf(CleanOf(inv[j].uri)) = "bmp"

\* C14: every BMP that is encoded has width >= 1 and height >= 1.
C14_EncodedAreaPositive ==
  \A i \in InvIds :
    Has(i, "encode") => (inv[i].width >= 1 /\ inv[i].height >= 1)

\* C15: the file an invocation writes is never the file it read as its source.
C15_WriteSparesSource ==
  \A i \in InvIds :
    Has(i, "write:ok") => inv[i].outPath # StripFileScheme(inv[i].local)

\* the size check has been applied on its own
SizeChecked == applied.fn = "sizeCheck" /\ applied.done

\* C16: the resize runs exactly when max(width, height) > maxSize, maxSize being
\* 1024 when omitted; when it does not run, width, height and the pixel buffer
\* go on to the encoder unchanged.
C16_ResizeIffLarger ==
  SizeChecked =>
    LET limit == IF applied.maxSize = Omitted THEN 1024 ELSE applied.maxSize
    IN  /\ applied.out.resized <=> (Max(applied.width, applied.height) > limit)
        /\ ~applied.out.resized =>
             /\ applied.out.width = applied.width
             /\ applied.out.height = applied.height
             /\ applied.out.rgba = applied.bytes

C16_Witness ==
  /\ SizeChecked
  /\ applied.width = 300 /\ applied.height = 200 /\ applied.maxSize = 1024
  /\ ~applied.out.resized
  /\ applied.out.width = 300 /\ applied.out.height = 200

\* C17: a resize gives max(1, floor(width * maxSize / M)) by
\* max(1, floor(height * maxSize / M)) with M = max(width, height).
C17_ExactScaledDims ==
  (SizeChecked /\ applied.out.resized /\ maxSizeOf(applied.maxSize) >= 1) =>
    LET limit  == maxSizeOf(applied.maxSize)
        larger == Max(applied.width, applied.height)
    IN  /\ applied.out.width = Max(1, (applied.width * limit) \div larger)
        /\ applied.out.height = Max(1, (applied.height * limit) \div larger)

\* writeBmp24 has been applied on its own
Encoded == applied.fn = "writeBmp24" /\ applied.done

\* zero bytes that bring a row of 3 * width bytes to a multiple of 4
PadOf(width) == (4 - ((3 * width) % 4)) % 4

\* C18: rows are emitted bottom-up, pixels left to right as B,G,R without the
\* alpha byte, each row padded with zero bytes: the byte at
\* 54 + r * (3 * width + pad) + 3 * x + c is channel 2 - c of source pixel
\* (x, height - 1 - r), for every pixel the buffer holds.
C18_BottomUpBgrRows ==
  Encoded =>
    LET stride == 3 * applied.width + PadOf(applied.width)
    IN  \A r \in 0..(applied.height - 1) :
          /\ \A x \in 0..(applied.width - 1), c \in 0..2 :
               LET si == ((applied.height - 1 - r) * applied.width + x) * 4
               IN  si + 3 < Len(applied.bytes) =>
                     applied.out[54 + r * stride + 3 * x + c + 1]
                       = applied.bytes[si + (2 - c) + 1]
          /\ \A q \in 0..(PadOf(applied.width) - 1) :
               applied.out[54 + r * stride + 3 * applied.width + q + 1] = 0

C18_Witness ==
  /\ Encoded
  /\ applied.width = 2 /\ applied.height = 2 /\ applied.bytes = Pattern(16)
  /\ SubSeq(applied.out, 55, 57)
       = <<applied.bytes[11], applied.bytes[10], applied.bytes[9]>>
  /\ SubSeq(applied.out, 61, 62) = <<0, 0>>

\* the k bytes of n, least significant first
LittleEndian(n, k) == [j \in 1..k |-> (n \div Pow2(8 * (j - 1))) % 256]

\* the k bytes of buf at 0-based offset off
At(buf, off, k) == SubSeq(buf, off + 1, off + k)

\* C19: for width, height >= 1 and any buffer length the output has exactly
\* 54 + (3 * width + pad) * height bytes, and that number is the header's
\* file-size field.
C19_ExactFileSize ==
  Encoded =>
    LET size == 54 + (3 * applied.width + PadOf(applied.width)) * applied.height
    IN  /\ Len(applied.out) = size
        /\ At(applied.out, 2, 4) = LittleEndian(size, 4)

C19_Witness ==
  /\ Encoded
  /\ applied.width = 3 /\ applied.height = 2 /\ applied.bytes = <<>>
  /\ Len(applied.out) = 78

\* C20: the 54 header bytes are 'BM', file size, reserved 0, offset 54, then
\* DIB size 40, width, height (positive), planes 1, 24 bits per pixel,
\* compression 0, image size, 2835 twice, colours 0 and 0, little-endian at the
\* standard offsets.
C20_HeaderLayout ==
  Encoded =>
    LET image == (3 * applied.width + PadOf(applied.width)) * applied.height
        out   == applied.out
    IN  /\ At(out, 0, 2) = <<66, 77>>
        /\ At(out, 2, 4) = LittleEndian(54 + image, 4)
        /\ At(out, 6, 4) = <<0, 0, 0, 0>>
        /\ At(out, 10, 4) = LittleEndian(54, 4)
        /\ At(out, 14, 4) = LittleEndian(40, 4)
        /\ At(out, 18, 4) = LittleEndian(applied.width, 4)
        /\ At(out, 22, 4) = LittleEndian(applied.height, 4)
        /\ At(out, 26, 2) = LittleEndian(1, 2)
        /\ At(out, 28, 2) = LittleEndian(24, 2)
        /\ At(out, 30, 4) = <<0, 0, 0, 0>>
        /\ At(out, 34, 4) = LittleEndian(image, 4)
        /\ At(out, 38, 4) = LittleEndian(2835, 4)
        /\ At(out, 42, 4) = LittleEndian(2835, 4)
        /\ At(out, 46, 4) = <<0, 0, 0, 0>>
        /\ At(out, 50, 4) = <<0, 0, 0, 0>>

C20_Witness ==
  /\ Encoded
  /\ applied.width = 3 /\ applied.height = 2 /\ applied.bytes = Pattern(24)
  /\ At(applied.out, 18, 4) = <<3, 0, 0, 0>>
  /\ At(applied.out, 22, 4) = <<2, 0, 0, 0>>
  /\ At(applied.out, 34, 4) = <<24, 0, 0, 0>>


\* the buffer was composited onto white on its own
Composited == applied.fn = "compositeOnWhite" /\ applied.done

\* v is the integer nearest to c * a/255 + 255 * (1 - a/255)
NearestBlend(v, c, a) ==
  LET n == c * a + 255 * (255 - a)
      d == 255 * v - n
  IN  v \in 0..255 /\ 2 * d < 255 /\ 2 * (0 - d) < 255

\* C21: compositing onto white maps each pixel (r, g, b, a) to the rounded
\* blend of each colour with white and alpha 255, and keeps the length of
\* the buffer; a pixel of alpha 0 becomes (255, 255, 255, 255)
C21_CompositeFormula ==
  Composited =>
    /\ Len(applied.out) = Len(applied.bytes)
    /\ \A p \in 0..(applied.width * applied.height - 1) :
         LET a == applied.bytes[4 * p + 4]
         IN  /\ applied.out[4 * p + 4] = 255
             /\ \A c \in 1..3 :
                  NearestBlend(applied.out[4 * p + c], applied.bytes[4 * p + c], a)
             /\ a = 0 => \A c \in 1..3 : applied.out[4 * p + c] = 255

\* the transparent pixel (10, 20, 30, 0) has become opaque white
C21_Witness ==
  /\ Composited
  /\ applied.bytes = <<10, 20, 30, 0>>
  /\ applied.out = <<255, 255, 255, 255>>


\* event e is in the trace of load l
Loaded(l, e) == \E n \in 1..Len(loads[l].trace) : loads[l].trace[n] = e

\* C22: when loadModel runs while the context state holds a context, by the
\* time initLlama is called the release has completed, the context state has
\* been set to null and the conversation has been reset
C22_ReleaseBeforeInit ==
  \A l \in LoadIds :
    (Loaded(l, "loadModel:present") /\ Loaded(l, "initLlama")) =>
      /\ Len(loads[l].trace) >= 5
      /\ SubSeq(loads[l].trace, 1, 5) =
           <<"loadModel:present", "released", "setContext:null",
             "setConversation:initial", "initLlama">>


\* the turn has been accepted and has not ended
Running(k) == turn[k].pc \in TurnPending

\* the Send button is available again
SendAvailable == ~isGenerating /\ ~isLoading /\ imageUrl = <<>>

\* C23: accepting a send sets isLoading and isGenerating; the step that ends
\* the turn, on every path, leaves both false and the image URL field empty;
\* and every accepted turn ends
C23_FlagsFollowTurn ==
  /\ [][(turn[1].pc = "idle" /\ Running(1)') => (isLoading' /\ isGenerating')]_vars
  /\ [][(Running(1) /\ turn'[1].pc = "finished") => SendAvailable']_vars
  /\ Running(1) ~> (turn[1].pc = "finished" /\ SendAvailable)

\* a turn whose image gave no media path has ended after its completion threw
C23_Witness ==
  /\ turn[1].pc = "finished"
  /\ turn[1].attachedImageUrl # <<>> /\ turn[1].mediaPath = Null
  /\ Len(completions) = 1
  /\ alert = "Error During Inference"
  /\ SendAvailable


\* C24: the buffer handed to the size check and the encoder has four bytes
\* for each pixel of the width and height handed over with it
C24_BufferMatchesDims ==
  \A i \in InvIds :
    Has(i, "encode") =>
      Len(inv[i].rgba) = inv[i].srcWidth * inv[i].srcHeight * 4

\* C25: a buffer from a PNG decode that did not throw has been composited
\* onto white when it reaches the size check, so each pixel has alpha 255
C25_PngAlwaysComposited ==
  \A i \in InvIds :
    (Has(i, "png:ok") /\ Has(i, "encode") /\ ~Has(i, "placeholder:nodata")) =>
      /\ Has(i, "composite")
      /\ \A j \in 1..Len(inv[i].rgba) : j % 4 = 0 => inv[i].rgba[j] = 255


\* invocation i ran the branch for bytes of no known signature
UnknownBranch(i) == inv[i].mime = "application/octet-stream" /\ Has(i, "encode")

JpegAttempted(i) == Has(i, "jpeg:ok") \/ Has(i, "jpeg:throw")

PlaceholderUsed(i) == Has(i, "placeholder") \/ Has(i, "placeholder:nodata")

\* C26: for bytes of no known signature the PNG decoder is tried first, the
\* JPEG decoder only after the PNG attempt failed, the white pixel only
\* after both failed, and a tier that succeeded is not replaced
C26_UnknownTierOrder ==
  \A i \in InvIds :
    UnknownBranch(i) =>
      /\ Has(i, "png:ok") \/ Has(i, "png:throw")
      /\ JpegAttempted(i) => Has(i, "png:throw")
      /\ PlaceholderUsed(i) => (Has(i, "png:throw") /\ Has(i, "jpeg:throw"))
      /\ Has(i, "png:ok") => (~JpegAttempted(i) /\ ~PlaceholderUsed(i))
      /\ Has(i, "jpeg:ok") => ~PlaceholderUsed(i)


\* bytes classified WEBP, reference with a hint
WebpHint(i) == Has(i, "image/webp") /\ IncludesWebpHint(inv[i].uri)

\* token n of the reference lies in a hint, as its separator or as its format
HintSeparator(u, n) ==
  /\ n >= 2 /\ n < Len(u)
  /\ u[n - 1] = "format" /\ u[n] \in {":", "="} /\ u[n + 1] = "webp"
HintFormat(u, n) == n >= 3 /\ u[n] = "webp" /\ HintSeparator(u, n - 1)

\* every hint of u reads format:jpeg in v, and nothing else differs
HintsRewritten(u, v) ==
  /\ Len(v) = Len(u)
  /\ \A n \in 1..Len(u) :
       v[n] = IF HintFormat(u, n) THEN "jpeg"
              ELSE IF HintSeparator(u, n) THEN ":"
              ELSE u[n]

\* the alternate was not obtained, or is neither PNG nor JPEG
NoAlternate(i) ==
  \/ Has(i, "alt:rejected")
  \/ Has(i, "alt:read:throw")
  \/ Has(i, "alt:mime:other")
  \/ toMediaPath(inv[i].altUri, 0).kind = "null"

\* what the alternate of invocation i holds, as the read finds it
AlternateClass(i) == detectMimeFromBytes(fs[StripFileScheme(inv[i].altLocal)])

\* the read of the alternate settles: a recursive call is made only for an
\* alternate sniffed as PNG or JPEG, and any other gives the placeholder
AlternateSniffed(i) ==
  (inv[i].pc = "altReading" /\ inv'[i].pc # "altReading") =>
    /\ inv'[i].pc = "awaitRecursive" =>
         /\ Exists(StripFileScheme(inv[i].altLocal))
         /\ AlternateClass(i) \in {"image/jpeg", "image/png"}
    /\ (Exists(StripFileScheme(inv[i].altLocal)) =>
          AlternateClass(i) \in {"image/bmp", "image/webp", "application/octet-stream"})
         => (inv'[i].pc = "writing" /\ inv'[i].bmpBytes = WhitePixelBmp)

\* a WEBP source with a hint asks for the reference with every hint rewritten
\* to format:jpeg; without an alternate it decodes nothing and encodes the
\* 58-byte 1x1 white BMP, whose path it returns unless the write or the stat
\* fails, and then null is
WebpHintFallback ==
  \A i \in InvIds :
    WebpHint(i) =>
      /\ Has(i, "alt:resolve")
      /\ HintsRewritten(inv[i].uri, inv[i].altUri)
      /\ Has(i, "recurse") => ~NoAlternate(i)
      /\ NoAlternate(i) =>
           /\ Has(i, "placeholder")
           /\ ~Has(i, "png:ok") /\ ~Has(i, "png:throw") /\ ~JpegAttempted(i)
           /\ inv[i].width = 1 /\ inv[i].height = 1
           /\ inv[i].bmpBytes = WhitePixelBmp
           /\ Done(i) =>
                IF Has(i, "write:ok") /\ Has(i, "stat:ok")
                THEN /\ inv[i].result = WithFileScheme(inv[i].outPath)
                     /\ fs[inv[i].outPath] = WhitePixelBmp
                ELSE /\ inv[i].result = Null
                     /\ Has(i, "write:throw") \/ Has(i, "stat:throw")

\* C27 (as amended): for a WEBP source with a hint the rewritten reference is
\* fetched and sniffed; only a PNG or JPEG alternate is followed; an
\* alternate that cannot be fetched or read, or is BMP, WEBP or unknown,
\* gives the white pixel at once, and its path is returned unless the write
\* or the stat fails
C27_WebpHintFallback ==
  /\ []WebpHintFallback
  /\ [][\A i \in InvIds : AlternateSniffed(i)]_vars

\* an alternate that is neither PNG nor JPEG gave the white pixel, and its
\* path came back
C27_Witness ==
  \E i \in InvIds :
    /\ WebpHint(i) /\ Has(i, "alt:mime:other")
    /\ Done(i) /\ inv[i].result # Null

\* C27 as stated: without an alternate a path is always returned
C27_FallbackReturnsPath ==
  \A i \in InvIds : (WebpHint(i) /\ NoAlternate(i) /\ Done(i)) => inv[i].result # Null


\* the buffer was resized on its own
Resized == applied.fn = "resizeNearestRGBA" /\ applied.done

\* floor(n * src / dst) for n below dst
SourceIndex(n, src, dst) ==
  CHOOSE s \in 0..(src - 1) : s * dst <= n * src /\ n * src < (s + 1) * dst

\* C28: the resized buffer has dstW * dstH * 4 bytes, and the four bytes of
\* each destination pixel (x, y) are those of the source pixel
\* (floor(x * srcW / dstW), floor(y * srcH / dstH))
C28_NearestNeighbourCopy ==
  Resized =>
    /\ Len(applied.out) = applied.dstW * applied.dstH * 4
    /\ \A x \in 0..(applied.dstW - 1), y \in 0..(applied.dstH - 1) :
         LET sx == SourceIndex(x, applied.width, applied.dstW)
             sy == SourceIndex(y, applied.height, applied.dstH)
         IN  \A c \in 1..4 :
               applied.out[(y * applied.dstW + x) * 4 + c] =
                 applied.bytes[(sy * applied.width + sx) * 4 + c]

\* a 3x2 image was reduced to 2x1: source pixels (0,0) and (1,0)
C28_Witness ==
  /\ Resized
  /\ applied.width = 3 /\ applied.height = 2
  /\ applied.dstW = 2 /\ applied.dstH = 1
  /\ applied.out = SubSeq(applied.bytes, 1, 8)


\* C29: a pixel whose four bytes are not all inside the buffer is written as
\* B,G,R = 0,0,0, and a short or empty buffer gives an output of the same
\* length as a full one
C29_MissingPixelsBlack ==
  Encoded =>
    LET stride == 3 * applied.width + PadOf(applied.width)
    IN  /\ Len(applied.out) =
             Len(writeBmp24(Pattern(applied.width * applied.height * 4),
                            applied.width, applied.height))
        /\ \A x \in 0..(applied.width - 1), y \in 0..(applied.height - 1) :
             (y * applied.width + x) * 4 + 4 > Len(applied.bytes) =>
               At(applied.out,
                  54 + (applied.height - 1 - y) * stride + 3 * x, 3) = <<0, 0, 0>>

\* a 2x1 image with 7 bytes: the first pixel is copied, the second, of which
\* three bytes are there, is black
C29_Witness ==
  /\ Encoded
  /\ applied.width = 2 /\ applied.height = 1 /\ applied.bytes = Pattern(7)
  /\ At(applied.out, 54, 6)
       = <<applied.bytes[3], applied.bytes[2], applied.bytes[1], 0, 0, 0>>


\* every pixel of the buffer has alpha 255
Opaque(rgba) == \A j \in 1..Len(rgba) : j % 4 = 0 => rgba[j] = 255

\* C30: compositing returns an opaque buffer unchanged, and compositing its
\* own result again returns the same bytes
C30_CompositeIdempotent ==
  Composited =>
    /\ Opaque(applied.bytes) => applied.out = applied.bytes
    /\ compositeOnWhite(applied.out) = applied.out

\* an opaque two-pixel buffer came back unchanged
C30_Witness ==
  /\ Composited
  /\ applied.bytes = <<10, 20, 30, 255, 200, 100, 50, 255>>
  /\ applied.out = applied.bytes


\* no model is loaded, or the message and the image URL are both blank
SendRefused == context = "null" \/ (Trim(userInput) = <<>> /\ Trim(imageUrl) = <<>>)

\* C31: a send with no context, or with both fields blank, leaves the
\* conversation, the two fields and the two flags as they are, starts no
\* image normalization and calls no completion
C31_RefusedSendChangesNothing ==
  [][(handleSendMessage(1) /\ SendRefused) =>
       UNCHANGED <<conversation, userInput, imageUrl, isLoading, isGenerating,
                   tokensPerSecond, turn, completions, inv, fs>>]_vars

\* a send with only blanks in both fields has been refused
C31_Witness ==
  /\ alert = "Input Error"
  /\ userInput = <<" ">> /\ imageUrl = RefBlank
  /\ conversation = INITIAL_CONVERSATION
  /\ turn[1].pc = "idle" /\ completions = <<>>


\* the iterations of the two loops of resize, with the channel copied
ResizeIterations ==
  (0..(applied.dstW - 1)) \X (0..(applied.dstH - 1)) \X (0..3)

\* C32: every source coordinate lies inside the source image, so each read
\* is inside a buffer of srcW * srcH * 4 bytes, and the iterations write
\* each byte of the destination exactly once
C32_ResizeStaysInBounds ==
  Resized =>
    /\ \A x \in 0..(applied.dstW - 1) :
         SourceCoordinate(x, applied.width, applied.dstW) \in 0..(applied.width - 1)
    /\ \A y \in 0..(applied.dstH - 1) :
         SourceCoordinate(y, applied.height, applied.dstH) \in 0..(applied.height - 1)
    /\ \A it \in ResizeIterations :
         LET sx == SourceCoordinate(it[1], applied.width, applied.dstW)
             sy == SourceCoordinate(it[2], applied.height, applied.dstH)
             si == (sy * applied.width + sx) * 4 + it[3]
         IN  /\ si < applied.width * applied.height * 4
             /\ applied.out[DestIndex(it[1], it[2], it[3], applied.dstW) + 1]
                  = applied.bytes[si + 1]
    /\ {DestIndex(it[1], it[2], it[3], applied.dstW) : it \in ResizeIterations}
         = 0..(Len(applied.out) - 1)
    /\ \A a, b \in ResizeIterations :
         DestIndex(a[1], a[2], a[3], applied.dstW)
           = DestIndex(b[1], b[2], b[3], applied.dstW) => a = b

\* a 2x3 image was enlarged to 3x4: the last column and row read the last
\* source column and row
C32_Witness ==
  /\ Resized
  /\ applied.width = 2 /\ applied.height = 3
  /\ applied.dstW = 3 /\ applied.dstH = 4
  /\ SubSeq(applied.out, 45, 48) = SubSeq(applied.bytes, 21, 24)


\* the width and the height in the header of a BMP
HeaderWidth(bmp) == bmp[19] + 256 * bmp[20] + 65536 * bmp[21]
HeaderHeight(bmp) == bmp[23] + 256 * bmp[24] + 65536 * bmp[25]

\* C33: every BMP the call encodes, whatever the branch, is at most maxSize
\* wide and high, and a path returned by a call that neither passed a BMP
\* through nor recursed names that encoded file
C33_EncodedWithinMaxSize ==
  \A i \in InvIds :
    /\ Has(i, "encode") =>
         /\ inv[i].width <= maxSizeOf(inv[i].maxSize)
         /\ inv[i].height <= maxSizeOf(inv[i].maxSize)
         /\ HeaderWidth(inv[i].bmpBytes) = inv[i].width
         /\ HeaderHeight(inv[i].bmpBytes) = inv[i].height
    /\ (Done(i) /\ inv[i].result # Null /\ ~Has(i, "passthrough") /\ ~Has(i, "recurse"))
         => (Has(i, "encode") /\ inv[i].result = WithFileScheme(inv[i].outPath))

\* a decoded 3x2 image was reduced for maxSize 2 and its path returned
C33_Witness ==
  \E i \in InvIds :
    /\ Has(i, "resize") /\ inv[i].maxSize = 2
    /\ inv[i].srcWidth = 3 /\ inv[i].srcHeight = 2
    /\ inv[i].width <= 2 /\ inv[i].height = 1
    /\ Done(i) /\ inv[i].result # Null


\* the downloads started so far: of a call's own reference, and of the
\* alternate it sniffs
DownloadsStarted ==
  Cardinality({i \in InvIds : Has(i, "download")})
  + Cardinality({i \in InvIds : inv[i].altDest # Null})

\* invocation j is the recursive call of invocation i
ChildOf(j, i) == inv[j].pc # "idle" /\ inv[j].parent = i

\* C34: one top-level call starts at most three downloads: its reference,
\* the alternate it sniffs, and the alternate again in the one recursive
\* call. After a recursion it returns what the recursive call returned, and
\* that call follows the bytes it read itself, not the bytes sniffed
C34_ThreeDownloadsChildDecides ==
  /\ DownloadsStarted <= 3
  /\ \A i, j \in InvIds :
       ChildOf(j, i) =>
         /\ Has(i, "recurse")
         /\ inv[j].uri = inv[i].altUri
         /\ inv[j].altDest = Null
         /\ Has(j, "read:ok") =>
              /\ inv[j].mime = detectMimeFromBytes(inv[j].bytes)
              /\ Has(j, "passthrough") <=> inv[j].mime = "image/bmp"
              /\ Has(j, "placeholder") <=>
                   (inv[j].mime = "image/webp"
                    \/ (Has(j, "png:throw") /\ Has(j, "jpeg:throw")))
         /\ Done(i) => (Done(j) /\ inv[i].result = inv[j].result)
  /\ \A i \in InvIds :
       (Has(i, "recurse") /\ Done(i)) => \E j \in InvIds : ChildOf(j, i)

\* three downloads were made; the alternate sniffed as PNG or JPEG came as a
\* BMP the second time, and its path, passed through, is the result
C34_Witness ==
  \E i, j \in InvIds :
    /\ DownloadsStarted = 3
    /\ ChildOf(j, i) /\ Done(i)
    /\ Has(j, "download:ok") /\ Has(j, "passthrough")
    /\ inv[i].result = inv[j].local


\* C35: at most one chat turn is in flight: while an accepted turn has not
\* finished no second turn is accepted, also after Stop has been pressed
C35_OneTurnInFlight ==
  \A j, k \in TurnIds : (Running(j) /\ Running(k)) => j = k


\* turn k's token callback runs in this step
Streams(k) == turn[k].pc = "completing" /\ turn'[k].current # turn[k].current

\* the message at idx is the assistant placeholder turn k appended, in the
\* conversation turn k extended
OwnPlaceholder(k, idx) ==
  /\ idx = Len(turn[k].chat) + 1
  /\ conversation[idx].role = "assistant"
  /\ SubSeq(conversation, 1, idx - 1) = turn[k].chat

\* C36: a token callback of a turn changes no message but the assistant
\* placeholder of that turn: no system or user message, and no message of a
\* conversation that was reset or extended by another turn in the meantime
C36_TokensTouchOwnPlaceholder ==
  [][\A k \in TurnIds :
       Streams(k) =>
         /\ Len(conversation') = Len(conversation)
         /\ \A idx \in 1..Len(conversation) :
              conversation'[idx] # conversation[idx] => OwnPlaceholder(k, idx)]_vars


\* the positions of the assistant messages of the conversation
AssistantMessages ==
  {idx \in 1..Len(conversation) : conversation[idx].role = "assistant"}

\* C37: once the chat turns have ended, however they ended, tokensPerSecond
\* has one entry for each assistant message of the conversation
C37_SpeedPerAssistantMessage ==
  (\A k \in TurnIds : ~Running(k)) =>
    Len(tokensPerSecond) = Cardinality(AssistantMessages)


\* load l calls initLlama in this step
StartsInitLlama(l) == loads'[l].pc = "initLlama" /\ loads[l].pc # "initLlama"

\* load j is inside loadModel: releasing, initialising or setting up
LoadInFlight(j) == loads[j].pc \in {"releaseAllLlama", "initLlama"} \cup MultimodalStage

\* C38: initLlama is started only when no initialised context is held and no
\* other loadModel call is in flight
C38_OneLiveContext ==
  [][\A l \in LoadIds :
       StartsInitLlama(l) =>
         /\ context' = "null"
         /\ \A j \in LoadIds \ {l} : ~LoadInFlight(j)]_vars


\* load l is inside handleDownloadModel: checking the file, downloading, or
\* in the loadModel it called
InDownloadHandler(l) ==
  \/ loads[l].pc \in {"checkFileExists", "downloadModel"}
  \/ LoadInFlight(l) /\ loads[l].via \in {"existing", "downloaded"}

\* the loadModel of load l has returned true in this step
LoadSucceeds(l) ==
  loads[l].pc \in MultimodalStage /\ loads'[l].pc \notin MultimodalStage

\* C39: handleDownloadModel starts no download in the step in which the
\* load of an existing file succeeded; the step that completes it, whether
\* the existing file was loaded, the download and the load succeeded, the
\* download failed or the load failed, leaves isDownloading false; and
\* isDownloading is false whenever no handleDownloadModel is running
C39_DownloadOnlyWhenNeeded ==
  /\ [][\A l \in LoadIds :
          (LoadSucceeds(l) /\ loads[l].via = "existing") =>
            (loads'[l].pc = "done" /\ ~InDownloadHandler(l)')]_vars
  /\ [][\A l \in LoadIds :
          (InDownloadHandler(l) /\ ~InDownloadHandler(l)') =>
            (loads'[l].pc = "done" /\ ~isDownloading')]_vars
  /\ []((\A l \in LoadIds : ~InDownloadHandler(l)) => ~isDownloading)

\* an existing file was loaded without a download, and after it a second
\* handleDownloadModel has ended with a failed download
C39_Witness ==
  /\ loads[1].pc = "done" /\ loads[1].via = "existing"
  /\ Loaded(1, "setContext:ctx")
  /\ loads[2].pc = "done" /\ loads[2].via = "none" /\ alert = "Error"
  /\ ~isDownloading

====
